---- MODULE Spec2Model ----
(***************************************************************************)
(* Relationship-state codec of bluesky-memory-scripts                      *)
(* (src/emojikey_manager.js, src/relationship_tracker.js).                 *)
(*                                                                         *)
(* A JavaScript string is modelled as the sequence of its UTF-16 code      *)
(* units.  An ASCII unit is written as itself ("[", "|", "7"), every other *)
(* unit as its four hex digits ("D83D", "FE0F"), so that the regular       *)
(* expressions of the source, which have no u flag and therefore work on   *)
(* code units, are modelled as they run.                                   *)
(***************************************************************************)
EXTENDS Integers, Sequences, FiniteSets, TLC

VARIABLES
    s,           \* the nine-dimension record handed to the encoder
    key,         \* the key string the codec last produced or received
    origin,      \* which operation produced key
    parsed,      \* result of the last parseEmojikey(key)
    report,      \* result of the last interpretEmojikey(key)
    recentKeys,  \* ordered history of regular keys (argument of createSuperkey)
    patterns,    \* the nine per-dimension patterns createSuperkey computed
    error,       \* message of the exception the last call threw, "" if none
    op,          \* the operation that ran last
    prev,        \* the key updateEmojikey was last called on
    signal,      \* the new context updateEmojikey was last called with
    input,       \* arguments of the agent operation that runs or ran last
    output,      \* what that operation returned, <<>> while there is none
    schedule,    \* the posting schedule
    now,         \* the current day and time of day
    trace,       \* the calls the running flow has made, in order
    pc           \* where the running flow stands, "idle" when none runs

codecVars ==
    <<s, key, origin, parsed, report, recentKeys, patterns, error, op,
      prev, signal>>

agentVars == <<input, output, schedule, now, trace, pc>>

vars ==
    <<s, key, origin, parsed, report, recentKeys, patterns, error, op,
      prev, signal, input, output, schedule, now, trace, pc>>

(***************************************************************************)
(* Bounds                                                                  *)
(***************************************************************************)
MaxLocks == 4     \* most lock glyphs in a trust value
MaxKeys == 6      \* longest history handed to createSuperkey

(***************************************************************************)
(* Glyphs, as UTF-16 code units                                            *)
(***************************************************************************)
UP == <<"2B06", "FE0F">>
DOWN == <<"2B07", "FE0F">>
STABLE == <<"2194", "FE0F">>
CYCLIC == <<"D83D", "DD04">>
Lock == <<"D83D", "DD12">>
Laptop == <<"D83D", "DCBB">>
Lens == <<"D83D", "DD0D">>
Brain == <<"D83E", "DDE0">>
Eagle == <<"D83E", "DD85">>
MoneyBag == <<"D83D", "DCB0">>
Thinking == <<"D83E", "DD14">>
Target == <<"D83C", "DFAF">>
Star == <<"D83C", "DF1F">>
Smile == <<"D83D", "DE0A">>
Rocket == <<"D83D", "DE80">>
Globe == <<"D83C", "DF10">>
Chart == <<"D83D", "DCCA">>
UpRight == <<"2197", "FE0F">>
Joy == <<"D83D", "DE02">>
Handshake == <<"D83E", "DD1D">>
Speech == <<"D83D", "DCAC">>
Rainbow == <<"D83C", "DF08">>
Puzzle == <<"D83E", "DDE9">>
Wrench == <<"D83D", "DD27">>
Robot == <<"D83E", "DD16">>
Sunglasses == <<"D83D", "DE0E">>

Dimensions ==
    {"topic", "approach", "goal", "tone", "context",
     "trust", "style", "humor", "collab"}

(***************************************************************************)
(* String primitives                                                       *)
(***************************************************************************)
LineTerminators == {"000A", "000D", "2028", "2029"}

\* what "." of a regular expression matches
Dot(c) == c \notin LineTerminators

StartsWith(str, prefix) ==
    /\ Len(str) >= Len(prefix)
    /\ SubSeq(str, 1, Len(prefix)) = prefix

\* String.prototype.slice(1, -1)
Slice(str) == SubSeq(str, 2, Len(str) - 1)

\* pattern occurs in str at position i
OccursAt(str, pattern, i) ==
    /\ i >= 1
    /\ i + Len(pattern) - 1 <= Len(str)
    /\ \A k \in 1..Len(pattern) : str[i + k - 1] = pattern[k]

\* String.prototype.includes
Includes(str, pattern) ==
    \E i \in 1..(Len(str) + 1) : OccursAt(str, pattern, i)

\* (str.match(/pattern/g) || []).length for a literal pattern
RECURSIVE CountFrom(_, _, _)
CountFrom(str, pattern, from) ==
    IF from + Len(pattern) - 1 > Len(str) THEN 0
    ELSE IF OccursAt(str, pattern, from)
         THEN 1 + CountFrom(str, pattern, from + Len(pattern))
         ELSE CountFrom(str, pattern, from + 1)

Count(str, pattern) == CountFrom(str, pattern, 1)

\* where the lazy (.*?)close ends when the group starts at j:
\* the first close unit, reached over units "." matches; 0 when there is none
RECURSIVE GroupEnd(_, _, _)
GroupEnd(str, close, j) ==
    IF j > Len(str) THEN 0
    ELSE IF str[j] = close THEN j
    ELSE IF ~Dot(str[j]) THEN 0
    ELSE GroupEnd(str, close, j + 1)

\* leftmost match of /open(.*?)close/ at or after from:
\* <<start, end>>, or <<0, 0>> when there is none
RECURSIVE LazyGroup(_, _, _, _)
LazyGroup(str, open, close, from) ==
    IF from > Len(str) THEN <<0, 0>>
    ELSE IF OccursAt(str, open, from)
              /\ GroupEnd(str, close, from + Len(open)) # 0
         THEN <<from, GroupEnd(str, close, from + Len(open))>>
         ELSE LazyGroup(str, open, close, from + 1)

NoMatch == <<"null">>

\* str.match(/open(.*?)close/): the capture group [1], or NoMatch for null
MatchGroup(str, open, close) ==
    LET m == LazyGroup(str, open, close, 1)
    IN  IF m = <<0, 0>> THEN NoMatch
        ELSE SubSeq(str, m[1] + Len(open), m[2] - 1)

\* str.match(/open(.*?)close/g): the matched substrings, left to right,
\* each search resuming after the end of the previous match
RECURSIVE MatchAllFrom(_, _, _, _)
MatchAllFrom(str, open, close, from) ==
    LET m == LazyGroup(str, open, close, from)
    IN  IF m = <<0, 0>> THEN <<>>
        ELSE <<SubSeq(str, m[1], m[2])>>
                 \o MatchAllFrom(str, open, close, m[2] + 1)

MatchAll(str, open, close) == MatchAllFrom(str, open, close, 1)

(***************************************************************************)
(* Encoder                                                                 *)
(***************************************************************************)
assembleEmojikey(parts) ==
    <<"[">> \o parts.topic \o <<"]", "27E8">> \o parts.approach
        \o <<"27E9", "[">> \o parts.goal \o <<"]", "{">> \o parts.tone
        \o <<"}", "27A1", "FE0F", "~", "[">> \o parts.context
        \o <<"]", "|">> \o parts.trust \o <<"|">> \o parts.style
        \o <<"|">> \o parts.humor \o <<"|">> \o parts.collab \o <<"|">>

\* a context argument: null/undefined, or an object with its mentions array
\* (NoMentions when the object has no mentions property)
NoMentions == <<"undefined">>

\* context.mentions of a null or undefined context throws a TypeError
createThrows(context) == context.isNull

determineTopicEmojis(context) ==
    IF \/ (context.mentions # NoMentions
             /\ \E i \in DOMAIN context.mentions : context.mentions[i] = "ai")
       \/ (context.mentions # NoMentions
             /\ \E i \in DOMAIN context.mentions :
                    context.mentions[i] = "consciousness")
    THEN Laptop \o Brain
    ELSE IF context.mentions # NoMentions
              /\ \E i \in DOMAIN context.mentions :
                     context.mentions[i] = "falcon"
         THEN Eagle \o MoneyBag
         ELSE Laptop \o Lens

determineApproachEmojis(context) == Lens \o Thinking
determineGoalEmojis(context) == Target \o Star
determineToneEmojis(context) == Smile \o Rocket
determineContextEmojis(context) == Globe \o CYCLIC
determineTrustLevel(context) == Lock \o Lock
determineStyleEmojis(context) == Chart \o UpRight
determineHumorLevel(context) == Joy \o STABLE
determineCollabPattern(context) == Handshake \o UpRight

\* the nine values createEmojikey extracts from the context
createParts(context) ==
    [topic |-> determineTopicEmojis(context),
     approach |-> determineApproachEmojis(context),
     goal |-> determineGoalEmojis(context),
     tone |-> determineToneEmojis(context),
     context |-> determineContextEmojis(context),
     trust |-> determineTrustLevel(context),
     style |-> determineStyleEmojis(context),
     humor |-> determineHumorLevel(context),
     collab |-> determineCollabPattern(context)]

createEmojikey(context) ==
    LET p == createParts(context)
    IN  <<"[">> \o p.topic \o <<"]", "27E8">> \o p.approach
            \o <<"27E9", "[">> \o p.goal \o <<"]", "{">> \o p.tone
            \o <<"}", "27A1", "FE0F", "~", "[">> \o p.context
            \o <<"]", "|">> \o p.trust \o <<"|">> \o p.style
            \o <<"|">> \o p.humor \o <<"|">> \o p.collab \o <<"|">>

(***************************************************************************)
(* Parser                                                                  *)
(***************************************************************************)
SuperPrefix == <<"[", "[", "00D7", "7">>

\* variant: the goal read from element 0 of the global bracket match
GoalGroupFromFirst(goalMatch) ==
    IF Len(goalMatch) > 0 THEN Slice(goalMatch[1]) ELSE <<>>

\* goalMatch && goalMatch.length > 1 ? goalMatch[1].slice(1, -1) : ''
GoalGroup(goalMatch) ==
    IF Len(goalMatch) > 1 THEN Slice(goalMatch[2]) ELSE <<>>

\* trustMatch && trustMatch.length > n ? trustMatch[n].slice(1, -1) : ''
PipeGroup(trustMatch, n) ==
    IF Len(trustMatch) > n THEN Slice(trustMatch[n + 1]) ELSE <<>>

\* variant: strict mode, a missing delimiter group is an error
parseThrowsOnMissingGroup(emojikey) ==
    \/ Len(MatchAll(emojikey, <<"[">>, "]")) < 2
    \/ MatchGroup(emojikey, <<"{">>, "}") = NoMatch
    \/ MatchGroup(emojikey, <<"~", "[">>, "]") = NoMatch
    \/ Len(MatchAll(emojikey, <<"|">>, "|")) < 4

\* parseEmojikey has no throw statement: every match that fails is replaced
\* by '' in the returned record
parseThrows(emojikey) == FALSE

parseEmojikey(emojikey) ==
    LET isSuperKey == StartsWith(emojikey, SuperPrefix)
        topicMatch == MatchGroup(emojikey, <<"[">>, "]")
        approachMatch == MatchGroup(emojikey, <<"27E8">>, "27E9")
        goalMatch == MatchAll(emojikey, <<"[">>, "]")
        toneMatch == MatchGroup(emojikey, <<"{">>, "}")
        contextMatch == MatchGroup(emojikey, <<"~", "[">>, "]")
        trustMatch == MatchAll(emojikey, <<"|">>, "|")
    IN  [isSuperKey |-> isSuperKey,
         topic |-> IF topicMatch # NoMatch THEN topicMatch ELSE <<>>,
         approach |-> IF approachMatch # NoMatch THEN approachMatch ELSE <<>>,
         goal |-> GoalGroup(goalMatch),
         tone |-> IF toneMatch # NoMatch THEN toneMatch ELSE <<>>,
         context |-> IF contextMatch # NoMatch THEN contextMatch ELSE <<>>,
         trust |-> PipeGroup(trustMatch, 0),
         style |-> PipeGroup(trustMatch, 1),
         humor |-> PipeGroup(trustMatch, 2),
         collab |-> PipeGroup(trustMatch, 3)]

(***************************************************************************)
(* Compressor                                                              *)
(***************************************************************************)
MinKeys == 5

InsufficientHistory == "Need at least 5 keys to create a SuperKey"

\* `${emojiSequences[0]}UP`
analyzePattern(emojiSequences) == emojiSequences[1] \o UP

\* parsedKeys.map(k => k[dim])
Column(parsedKeys, dim) == [i \in DOMAIN parsedKeys |-> parsedKeys[i][dim]]

\* the nine patterns createSuperkey computes from the history
superkeyPatterns(keys) ==
    LET parsedKeys == [i \in DOMAIN keys |-> parseEmojikey(keys[i])]
    IN  [dim \in Dimensions |-> analyzePattern(Column(parsedKeys, dim))]

\* the template literal of createSuperkey
superkeyTemplate(p) ==
    SuperPrefix \o p.topic \o <<"]", "27E8">> \o p.approach
        \o <<"27E9", "[">> \o p.goal \o <<"]", "{">> \o p.tone
        \o <<"}", "27A1", "FE0F", "~", "[">> \o p.context
        \o <<"]", "|">> \o p.trust \o <<"|">> \o p.style
        \o <<"|">> \o p.humor \o <<"|">> \o p.collab \o <<"|", "]", "]">>

\* variant: the length guard off by one
superkeyThrowsBelowFour(keys) == Len(keys) < MinKeys - 1

\* createSuperkey throws on a history this short
superkeyThrows(keys) == Len(keys) < MinKeys

(***************************************************************************)
(* Interpreter                                                             *)
(***************************************************************************)
\* the units of the character class /[UP DOWN STABLE CYCLIC]/ (no u flag)
TrendClass == {"2B06", "FE0F", "2B07", "2194", "D83D", "DD04"}

\* str.replace(/[...]/g, '')
StripClass(str) == SelectSeq(str, LAMBDA c : c \notin TrendClass)

\* variant: the || fallback forgotten
LookupWithoutFallback(table, cleanEmojis, fallback) ==
    IF \E e \in table : e[1] = cleanEmojis
    THEN (CHOOSE e \in table : e[1] = cleanEmojis)[2]
    ELSE "undefined"

\* table[cleanEmojis] || fallback, for a table given as a set of
\* <<glyphs, description>> pairs
Lookup(table, cleanEmojis, fallback) ==
    IF \E e \in table : e[1] = cleanEmojis
    THEN (CHOOSE e \in table : e[1] = cleanEmojis)[2]
    ELSE fallback

topicMap ==
    {<<Laptop \o Brain, "AI and consciousness research">>,
     <<Eagle \o MoneyBag, "Falcon-backed finance">>,
     <<Laptop \o Lens, "Technology exploration">>,
     <<<<"D83D", "DCF1", "D83D", "DCBE">>, "Mobile and data technology">>,
     <<Globe \o Lock, "Internet security">>,
     <<<<"D83D", "DCCA", "D83D", "DCC8">>, "Data analysis and trends">>}

interpretTopicEmojis(topicEmojis) ==
    Lookup(topicMap, StripClass(topicEmojis), "General tech discussion")

approachMap ==
    {<<Lens \o Thinking, "Analytical and thoughtful">>,
     <<Rocket \o Wrench, "Action-oriented and practical">>,
     <<Puzzle \o Lens, "Problem-solving focused">>,
     <<<<"D83D", "DD2C", "D83E", "DDEA">>,
       "Experimental and testing-oriented">>,
     <<<<"D83D", "DCDD", "D83C", "DFA8">>, "Creative and expressive">>}

interpretApproachEmojis(approachEmojis) ==
    Lookup(approachMap, StripClass(approachEmojis),
           "General exploratory approach")

goalMap ==
    {<<Target \o Star, "Seeking insights and excellence">>,
     <<Handshake \o <<"D83C", "DF31">>, "Building relationships and growth">>,
     <<Chart \o <<"D83D", "DCA1">>, "Gathering data and insights">>,
     <<<<"D83C", "DFC6", "D83D", "DD1D">>, "Achievement and leadership">>,
     <<Wrench \o <<"D83D", "DEE0", "FE0F">>,
       "Building and creating solutions">>}

interpretGoalEmojis(goalEmojis) ==
    Lookup(goalMap, StripClass(goalEmojis), "General exploration goals")

toneMap ==
    {<<Smile \o Rocket, "Friendly and enthusiastic">>,
     <<<<"D83E", "DDD0", "D83E", "DD13">>, "Analytical and intellectual">>,
     <<Joy \o <<"D83C", "DFAD">>, "Humorous and playful">>,
     <<<<"D83D", "DC4D">> \o Sunglasses, "Approving and confident">>,
     <<Thinking \o <<"2753">>, "Curious and questioning">>}

interpretToneEmojis(toneEmojis) ==
    Lookup(toneMap, StripClass(toneEmojis), "Neutral professional tone")

contextMap ==
    {<<Globe \o CYCLIC, "Global tech ecosystem">>,
     <<<<"D83D", "DCBC", "D83D", "DCC8">>, "Professional development">>,
     <<<<"D83C", "DF93", "D83D", "DCDA">>, "Educational context">>,
     <<<<"D83E", "DDEA", "D83D", "DD2C">>, "Research and exploration">>,
     <<Robot \o <<"D83D", "DC7D">>, "AI and future technologies">>}

interpretContextEmojis(contextEmojis) ==
    Lookup(contextMap, StripClass(contextEmojis), "General digital context")

\* variant: high trust only at exactly three locks
interpretTrustLevelExactlyThree(trustEmojis) ==
    LET lockCount == Count(trustEmojis, Lock)
    IN  IF lockCount = 3 THEN "High trust established"
        ELSE IF lockCount = 2 THEN "Medium trust developing"
        ELSE IF lockCount = 1 THEN "Initial trust forming"
        ELSE "Trust not yet established"

interpretTrustLevel(trustEmojis) ==
    LET lockCount == Count(trustEmojis, Lock)
    IN  IF lockCount >= 3 THEN "High trust established"
        ELSE IF lockCount = 2 THEN "Medium trust developing"
        ELSE IF lockCount = 1 THEN "Initial trust forming"
        ELSE "Trust not yet established"

styleMap ==
    {<<Chart \o UpRight, "Data-driven with positive trends">>,
     <<Speech \o STABLE, "Conversational and stable">>,
     <<Target \o UP, "Focused and improving">>,
     <<Puzzle \o CYCLIC, "Problem-solving with changing approaches">>,
     <<<<"D83D", "DCDD">> \o UP, "Detailed and progressive">>}

interpretStyleEmojis(styleEmojis) ==
    Lookup(styleMap, styleEmojis, "Standard communication style")

interpretHumorLevel(humorEmojis) ==
    IF Includes(humorEmojis, Joy \o UP) THEN "High and increasing humor"
    ELSE IF Includes(humorEmojis, Joy \o STABLE)
         THEN "Consistent moderate humor"
    ELSE IF Includes(humorEmojis, Joy \o DOWN) THEN "Decreasing humor level"
    ELSE IF Includes(humorEmojis, <<"D83D", "DE10">> \o STABLE)
         THEN "Limited humor, primarily serious"
    ELSE "Balanced humor approach"

interpretCollabPattern(collabEmojis) ==
    IF Includes(collabEmojis, Handshake \o UP \o UP)
    THEN "Strongly increasing collaboration"
    ELSE IF Includes(collabEmojis, Handshake \o UP)
         THEN "Growing collaboration"
    ELSE IF Includes(collabEmojis, Handshake \o STABLE)
         THEN "Stable collaborative relationship"
    ELSE IF Includes(collabEmojis, Handshake \o DOWN)
         THEN "Decreasing collaboration"
    ELSE "Standard collaborative pattern"

\* variant: a category wins on a tie as well
detectOverallTrendOnTies(emojikey) ==
    LET upCount == Count(emojikey, UP)
        downCount == Count(emojikey, DOWN)
        stableCount == Count(emojikey, STABLE)
        fluctuatingCount == Count(emojikey, CYCLIC)
    IN  IF upCount >= downCount /\ upCount >= stableCount THEN "improving"
        ELSE IF downCount >= upCount /\ downCount >= stableCount
             THEN "declining"
        ELSE IF stableCount >= upCount /\ stableCount >= downCount
             THEN "stable"
        ELSE IF /\ fluctuatingCount >= upCount
                /\ fluctuatingCount >= downCount
                /\ fluctuatingCount >= stableCount
             THEN "fluctuating"
        ELSE "mixed"

detectOverallTrend(emojikey) ==
    LET upCount == Count(emojikey, UP)
        downCount == Count(emojikey, DOWN)
        stableCount == Count(emojikey, STABLE)
        fluctuatingCount == Count(emojikey, CYCLIC)
    IN  IF upCount > downCount /\ upCount > stableCount THEN "improving"
        ELSE IF downCount > upCount /\ downCount > stableCount
             THEN "declining"
        ELSE IF stableCount > upCount /\ stableCount > downCount
             THEN "stable"
        ELSE IF /\ fluctuatingCount > upCount
                /\ fluctuatingCount > downCount
                /\ fluctuatingCount > stableCount
             THEN "fluctuating"
        ELSE "mixed"

interpretEmojikey(emojikey) ==
    LET p == parseEmojikey(emojikey)
    IN  [isSuperKey |-> p.isSuperKey,
         topicFocus |-> interpretTopicEmojis(p.topic),
         approachStyle |-> interpretApproachEmojis(p.approach),
         relationshipGoals |-> interpretGoalEmojis(p.goal),
         emotionalTone |-> interpretToneEmojis(p.tone),
         interactionContext |-> interpretContextEmojis(p.context),
         trustLevel |-> interpretTrustLevel(p.trust),
         communicationStyle |-> interpretStyleEmojis(p.style),
         humorAlignment |-> interpretHumorLevel(p.humor),
         collaborationPattern |-> interpretCollabPattern(p.collab),
         overallTrend |-> detectOverallTrend(emojikey)]

(***************************************************************************)
(* Inputs                                                                  *)
(***************************************************************************)
RECURSIVE Locks(_)
Locks(n) == IF n = 0 THEN <<>> ELSE Lock \o Locks(n - 1)

\* n lock glyphs, each followed by a STABLE trend glyph
RECURSIVE LocksApart(_)
LocksApart(n) == IF n = 0 THEN <<>> ELSE Lock \o STABLE \o LocksApart(n - 1)

TrustValues ==
    {Locks(n) : n \in 1..MaxLocks}
        \cup {Locks(n) \o UP : n \in 0..MaxLocks}
        \cup {Chart \o LocksApart(n) : n \in 0..MaxLocks}

BracketValues == {Laptop \o Lens, Target \o Star}

\* complete records: nine glyph sequences free of delimiter characters
StateRecords ==
    [topic : BracketValues,
     approach : {Lens \o Thinking},
     goal : BracketValues,
     tone : {Smile \o Rocket},
     context : {Laptop \o Lens},
     trust : TrustValues,
     style : {Chart \o UpRight, Speech \o STABLE},
     humor : {Joy \o STABLE},
     collab : {Handshake \o UP \o UP}]

MentionLists ==
    {NoMentions, <<>>, <<"ai">>, <<"falcon">>, <<"web", "consciousness">>}

Contexts ==
    {[isNull |-> TRUE, mentions |-> NoMentions]}
        \cup {[isNull |-> FALSE, mentions |-> m] : m \in MentionLists}

\* the default components of generateEmojikey
DefaultComponents ==
    [topic |-> Laptop \o Globe,
     approach |-> Lens \o Handshake,
     goal |-> Target \o CYCLIC,
     tone |-> Smile \o Thinking,
     context |-> Rainbow \o Puzzle,
     trust |-> Lock \o Lock,
     style |-> Chart,
     humor |-> Joy,
     collab |-> Handshake]

\* key strings the repository stores outside the encoder
StoredKeys ==
    {\* memory_check.js: relationshipEmojikey
     <<"[">> \o Laptop \o Lock \o <<"]", "27E8">> \o Lens \o Wrench
         \o <<"27E9", "[">> \o Rocket \o Robot \o <<"]">>,
     \* index.js: initialEmojikey
     <<"[">> \o Laptop \o Globe \o <<"]", "27E8">> \o Lens
         \o <<"27E9", "[">> \o Target \o <<"]", "{">> \o Sunglasses
         \o <<"}", "27A1", "FE0F">>,
     \* relationship_tracker.js: the fallback key of generateEmojikey
     assembleEmojikey(DefaultComponents)}

\* the regular keys a history is made of
HistoryRecords ==
    {[DefaultComponents EXCEPT !.topic = Laptop \o Lens],
     [DefaultComponents EXCEPT !.topic = Laptop \o Brain,
                               !.trust = Lock \o Lock \o DOWN]}

(***************************************************************************)
(* Key generation and update                                               *)
(***************************************************************************)
\* the interactionHistory argument: only its truthiness and length are read
InteractionHistories == {"undefined", "empty", "some"}

\* variant: the goal default of createEmojikey used for the goal component
generateEmojikeyStarGoal(interactionHistory) ==
    assembleEmojikey([DefaultComponents EXCEPT !.goal = Target \o Star])

\* generateEmojikey(username, interactionHistory): the history leaves the
\* default components as they are; nothing in the try block can throw
generateEmojikey(interactionHistory) ==
    LET components == DefaultComponents
    IN  <<"[">> \o components.topic \o <<"]", "27E8">>
            \o components.approach \o <<"27E9", "[">> \o components.goal
            \o <<"]", "{">> \o components.tone
            \o <<"}", "27A1", "FE0F", "~", "[">> \o components.context
            \o <<"]", "|">> \o components.trust \o <<"|">>
            \o components.style \o <<"|">> \o components.humor
            \o <<"|">> \o components.collab \o <<"|">>

\* what the new context says about one dimension
Deltas == {"increase", "decrease", "no-change", "oscillating", "unknown"}

\* new contexts: the same delta reported for every dimension
Signals == {[dim \in Dimensions |-> delta] : delta \in Deltas}

calculateUpdates(parsedKey, newContext) ==
    [topic |-> parsedKey.topic,
     approach |-> parsedKey.approach,
     goal |-> parsedKey.goal,
     tone |-> parsedKey.tone,
     context |-> parsedKey.context,
     trust |-> parsedKey.trust,
     style |-> parsedKey.style,
     humor |-> parsedKey.humor,
     collab |-> parsedKey.collab]

updateEmojikey(existingKey, newContext) ==
    assembleEmojikey(calculateUpdates(parseEmojikey(existingKey), newContext))

\* the shortened and damaged forms of the fallback key: every prefix, every
\* suffix, and its glyph sequences without any delimiter
TruncatedKeys ==
    LET full == assembleEmojikey(DefaultComponents)
    IN  {SubSeq(full, 1, n) : n \in 0..Len(full)}
            \cup {SubSeq(full, n, Len(full)) : n \in 1..Len(full)}
            \cup {DefaultComponents[dim] : dim \in Dimensions}

(***************************************************************************)
(* Operations                                                              *)
(***************************************************************************)
Init ==
    /\ s \in StateRecords
    /\ key = <<>>
    /\ origin = "none"
    /\ parsed = <<>>
    /\ report = <<>>
    /\ recentKeys = <<>>
    /\ patterns = <<>>
    /\ error = ""
    /\ op = "init"
    /\ prev = <<>>
    /\ signal = <<>>
    /\ input = <<>>
    /\ output = <<>>
    /\ schedule = <<>>
    /\ now = <<>>
    /\ trace = <<>>
    /\ pc = "idle"

\* assembleEmojikey(parts) on the record s
AssembleEmojikey ==
    /\ key' = assembleEmojikey(s)
    /\ origin' = "assemble"
    /\ parsed' = <<>>
    /\ report' = <<>>
    /\ error' = ""
    /\ op' = "assembleEmojikey"
    /\ UNCHANGED <<s, recentKeys, patterns, prev, signal, agentVars>>

\* createEmojikey(username, context)
CreateEmojikey ==
    \E context \in Contexts :
        /\ IF createThrows(context)
           THEN /\ error' = "TypeError"
                /\ UNCHANGED <<s, key, origin, parsed, report>>
           ELSE /\ s' = createParts(context)
                /\ key' = createEmojikey(context)
                /\ origin' = "create"
                /\ parsed' = <<>>
                /\ report' = <<>>
                /\ error' = ""
        /\ op' = "createEmojikey"
        /\ UNCHANGED <<recentKeys, patterns, prev, signal, agentVars>>

\* generateEmojikey(username, interactionHistory)
GenerateEmojikey ==
    \E interactionHistory \in InteractionHistories :
        /\ s' = DefaultComponents
        /\ key' = generateEmojikey(interactionHistory)
        /\ origin' = "generate"
        /\ parsed' = <<>>
        /\ report' = <<>>
        /\ error' = ""
        /\ op' = "generateEmojikey"
        /\ UNCHANGED <<recentKeys, patterns, prev, signal, agentVars>>

\* updateEmojikey(key, newContext) on the key stored last
UpdateEmojikey ==
    /\ origin \in {"assemble", "create", "generate", "update"}
    /\ \E newContext \in Signals :
           /\ prev' = key
           /\ signal' = newContext
           /\ key' = updateEmojikey(key, newContext)
    /\ origin' = "update"
    /\ parsed' = <<>>
    /\ report' = <<>>
    /\ error' = ""
    /\ op' = "updateEmojikey"
    /\ UNCHANGED <<s, recentKeys, patterns, agentVars>>

\* a shortened key string is read back
ReceiveTruncated ==
    \E k \in TruncatedKeys :
        /\ key' = k
        /\ origin' = "truncated"
        /\ parsed' = <<>>
        /\ report' = <<>>
        /\ error' = ""
        /\ op' = "receiveKey"
        /\ UNCHANGED <<s, recentKeys, patterns, prev, signal, agentVars>>

\* a stored key string is read back
ReceiveKey ==
    \E k \in StoredKeys :
        /\ key' = k
        /\ origin' = "stored"
        /\ parsed' = <<>>
        /\ report' = <<>>
        /\ error' = ""
        /\ op' = "receiveKey"
        /\ UNCHANGED <<s, recentKeys, patterns, prev, signal, agentVars>>

\* parseEmojikey(key)
ParseEmojikey ==
    /\ IF parseThrows(key)
       THEN error' = "ParseError" /\ parsed' = <<>>
       ELSE error' = "" /\ parsed' = <<parseEmojikey(key)>>
    /\ op' = "parseEmojikey"
    /\ UNCHANGED <<s, key, origin, report, recentKeys, patterns, prev, signal, agentVars>>

\* interpretEmojikey(key)
InterpretEmojikey ==
    /\ report' = <<interpretEmojikey(key)>>
    /\ error' = ""
    /\ op' = "interpretEmojikey"
    /\ UNCHANGED <<s, key, origin, parsed, recentKeys, patterns, prev, signal, agentVars>>

Next ==
    \/ AssembleEmojikey
    \/ CreateEmojikey
    \/ GenerateEmojikey
    \/ ReceiveKey
    \/ ParseEmojikey
    \/ InterpretEmojikey

Spec == Init /\ [][Next]_vars

(***************************************************************************)
(* Compression of a history                                                *)
(***************************************************************************)
InitSuper ==
    /\ s = DefaultComponents
    /\ key = <<>>
    /\ origin = "none"
    /\ parsed = <<>>
    /\ report = <<>>
    /\ recentKeys = <<>>
    /\ patterns = <<>>
    /\ error = ""
    /\ op = "init"
    /\ prev = <<>>
    /\ signal = <<>>
    /\ input = <<>>
    /\ output = <<>>
    /\ schedule = <<>>
    /\ now = <<>>
    /\ trace = <<>>
    /\ pc = "idle"

\* the history store hands over one more regular key
StoreKey ==
    /\ Len(recentKeys) < MaxKeys
    /\ \E r \in HistoryRecords :
           recentKeys' = Append(recentKeys, assembleEmojikey(r))
    /\ error' = ""
    /\ op' = "storeKey"
    /\ UNCHANGED <<s, key, origin, parsed, report, patterns, prev, signal, agentVars>>

\* createSuperkey(recentKeys)
CreateSuperkey ==
    /\ IF superkeyThrows(recentKeys)
       THEN /\ error' = InsufficientHistory
            /\ UNCHANGED <<key, origin, parsed, report, patterns>>
       ELSE /\ patterns' = <<superkeyPatterns(recentKeys)>>
            /\ key' = superkeyTemplate(patterns'[1])
            /\ origin' = "superkey"
            /\ parsed' = <<>>
            /\ report' = <<>>
            /\ error' = ""
    /\ op' = "createSuperkey"
    /\ UNCHANGED <<s, recentKeys, prev, signal, agentVars>>

NextSuper ==
    \/ StoreKey
    \/ CreateSuperkey
    \/ ParseEmojikey
    \/ InterpretEmojikey

SpecSuper == InitSuper /\ [][NextSuper]_vars

(***************************************************************************)
(* Stored and shortened keys                                               *)
(***************************************************************************)
NextStored ==
    \/ ReceiveKey
    \/ ReceiveTruncated
    \/ ParseEmojikey
    \/ InterpretEmojikey

SpecStored == InitSuper /\ [][NextStored]_vars

(***************************************************************************)
(* The update cycle                                                        *)
(***************************************************************************)
\* the records an update cycle starts from
UpdateRecords ==
    {r \in StateRecords : r.trust \in {Lock \o Lock, Lock \o UP}}

InitUpdate ==
    /\ s \in UpdateRecords
    /\ key = <<>>
    /\ origin = "none"
    /\ parsed = <<>>
    /\ report = <<>>
    /\ recentKeys = <<>>
    /\ patterns = <<>>
    /\ error = ""
    /\ op = "init"
    /\ prev = <<>>
    /\ signal = <<>>
    /\ input = <<>>
    /\ output = <<>>
    /\ schedule = <<>>
    /\ now = <<>>
    /\ trace = <<>>
    /\ pc = "idle"

NextUpdate ==
    \/ AssembleEmojikey
    \/ GenerateEmojikey
    \/ UpdateEmojikey
    \/ ParseEmojikey

SpecUpdate == InitUpdate /\ [][NextUpdate]_vars

(***************************************************************************)
(* The grammar, read by position                                           *)
(***************************************************************************)
Indexes(str, unit) == {i \in 1..Len(str) : str[i] = unit}

\* the k-th smallest element of a set of integers
Kth(S, k) == CHOOSE i \in S : Cardinality({j \in S : j < i}) = k - 1

\* content of the k-th group opened by open and closed by close
GroupContent(str, open, close, k) ==
    IF Cardinality(Indexes(str, open)) >= k
          /\ Cardinality(Indexes(str, close)) >= k
    THEN SubSeq(str, Kth(Indexes(str, open), k) + 1,
                     Kth(Indexes(str, close), k) - 1)
    ELSE <<>>

\* content between the k-th and the (k+1)-th pipe
PipeContent(str, k) ==
    IF Cardinality(Indexes(str, "|")) >= k + 1
    THEN SubSeq(str, Kth(Indexes(str, "|"), k) + 1,
                     Kth(Indexes(str, "|"), k + 1) - 1)
    ELSE <<>>

\* the nine dimensions of a regular key, each taken from its position
Positional(str) ==
    [topic |-> GroupContent(str, "[", "]", 1),
     approach |-> GroupContent(str, "27E8", "27E9", 1),
     goal |-> GroupContent(str, "[", "]", 2),
     tone |-> GroupContent(str, "{", "}", 1),
     context |-> GroupContent(str, "[", "]", 3),
     trust |-> PipeContent(str, 1),
     style |-> PipeContent(str, 2),
     humor |-> PipeContent(str, 3),
     collab |-> PipeContent(str, 4)]

\* key was assembled by the encoder from the record s
Encoded == origin \in {"assemble", "create"}

EndsWith(str, suffix) ==
    /\ Len(str) >= Len(suffix)
    /\ SubSeq(str, Len(str) - Len(suffix) + 1, Len(str)) = suffix

\* C1 - Round trip: parsing the canonical key assembled from a complete
\* record s returns the nine dimension values of s, with isSuperKey false.
RoundTrip ==
    (Encoded /\ parsed # <<>>) =>
        /\ \A dim \in Dimensions : parsed[1][dim] = s[dim]
        /\ parsed[1].isSuperKey = FALSE

\* C2 - Positional pipe parsing: for a key ending in |a|b|c|d|, the parser
\* returns trust = a, style = b, humor = c and collab = d.
PositionalPipes ==
    (/\ parsed # <<>>
     /\ Cardinality(Indexes(key, "|")) = 5
     /\ key[Len(key)] = "|") =>
        /\ parsed[1].trust = PipeContent(key, 1)
        /\ parsed[1].style = PipeContent(key, 2)
        /\ parsed[1].humor = PipeContent(key, 3)
        /\ parsed[1].collab = PipeContent(key, 4)

\* C3 - Positional bracket parsing: for a regular key, topic is the content
\* of the 1st bracket group and goal the content of the 2nd, also when both
\* hold the same glyphs; they are never swapped nor collapsed.
PositionalBrackets ==
    (origin \in {"assemble", "create", "stored"} /\ parsed # <<>>) =>
        /\ parsed[1].topic = GroupContent(key, "[", "]", 1)
        /\ parsed[1].goal = GroupContent(key, "[", "]", 2)
        /\ Encoded => parsed[1].topic = s.topic /\ parsed[1].goal = s.goal

\* a key with the same glyphs in the topic and the goal position was parsed
\* into two fields holding them
SameTopicAndGoalParsed ==
    /\ origin = "assemble"
    /\ parsed # <<>>
    /\ s.topic = s.goal
    /\ parsed[1].topic = s.topic
    /\ parsed[1].goal = s.goal

\* C4 - SuperKey parsing strips the envelope: parsing a SuperKey returns
\* isSuperKey true, a topic that is exactly the compressed topic glyphs with
\* no part of the envelope prefix, and the other eight dimensions as the
\* regular grammar gives them.
SuperkeyParseStripsEnvelope ==
    (origin = "superkey" /\ parsed # <<>>) =>
        /\ parsed[1].isSuperKey
        /\ ~Includes(parsed[1].topic, <<"[">>)
        /\ \A dim \in Dimensions : parsed[1][dim] = patterns[1][dim]

\* C5 - Minimum history: createSuperkey on fewer than 5 keys fails with an
\* error and produces no SuperKey; on 5 or more keys it succeeds, and its
\* result parses with isSuperKey true.
MinimumHistory ==
    /\ op = "createSuperkey" =>
           IF Len(recentKeys) < 5
           THEN error = InsufficientHistory /\ origin # "superkey"
                    /\ patterns = <<>>
           ELSE error = "" /\ origin = "superkey"
    /\ (origin = "superkey" /\ parsed # <<>>) => parsed[1].isSuperKey

\* a SuperKey made from exactly five keys was parsed as a SuperKey
FiveKeysParsedAsSuperkey ==
    /\ origin = "superkey"
    /\ Len(recentKeys) = 5
    /\ op = "parseEmojikey"
    /\ parsed # <<>>
    /\ parsed[1].isSuperKey

(***************************************************************************)
(* What the compressor is specified to emit                                *)
(***************************************************************************)
\* the values one dimension holds across a history of regular keys
HistoryColumn(keys, dim) == [i \in DOMAIN keys |-> Positional(keys[i])[dim]]

Occurrences(column, v) == Cardinality({i \in DOMAIN column : column[i] = v})

FirstIndex(column, v) ==
    CHOOSE i \in DOMAIN column :
        column[i] = v /\ \A j \in DOMAIN column : column[j] = v => i <= j

\* the most frequent value, the earliest one among several most frequent
Dominant(column) ==
    column[CHOOSE i \in DOMAIN column :
        /\ i = FirstIndex(column, column[i])
        /\ \A j \in DOMAIN column :
              \/ Occurrences(column, column[i]) > Occurrences(column, column[j])
              \/ /\ Occurrences(column, column[i])
                        = Occurrences(column, column[j])
                 /\ i <= FirstIndex(column, column[j])]

\* number of places where glyph occurs in the values of a column
RECURSIVE GlyphTotal(_, _)
GlyphTotal(column, glyph) ==
    IF column = <<>> THEN 0
    ELSE Cardinality({i \in 1..Len(Head(column)) :
                          OccursAt(Head(column), glyph, i)})
             + GlyphTotal(Tail(column), glyph)

\* strict majority rule, checked in the order UP, DOWN, STABLE, CYCLIC
AggregateTrend(column) ==
    LET u == GlyphTotal(column, UP)
        d == GlyphTotal(column, DOWN)
        st == GlyphTotal(column, STABLE)
        c == GlyphTotal(column, CYCLIC)
    IN  IF u > d /\ u > st /\ u > c THEN "UP"
        ELSE IF d > u /\ d > st /\ d > c THEN "DOWN"
        ELSE IF st > u /\ st > d /\ st > c THEN "STABLE"
        ELSE IF c > u /\ c > d /\ c > st THEN "CYCLIC"
        ELSE "MIXED"

TrendGlyphs == {UP, DOWN, STABLE, CYCLIC}

\* createSuperkey has just returned a SuperKey for recentKeys
Compressed == op = "createSuperkey" /\ error = "" /\ patterns # <<>>

\* C6 - Compression dominance: for 5 keys holding the same topic, with no
\* trend glyph in it, the compressed topic is that glyph sequence followed
\* by the STABLE trend glyph.
CompressionDominance ==
    (/\ Compressed
     /\ Len(recentKeys) = 5
     /\ \A i \in DOMAIN recentKeys :
            /\ Positional(recentKeys[i]).topic = Positional(recentKeys[1]).topic
            /\ \A g \in TrendGlyphs :
                   ~Includes(Positional(recentKeys[i]).topic, g)) =>
        patterns[1].topic = Positional(recentKeys[1]).topic \o STABLE

\* C7 - Dominant glyph sequence: for every dimension, the glyphs emitted
\* are the most frequent value of the history, the earliest one on a tie
\* (followed by at most one trend glyph).
DominantGlyphSequence ==
    Compressed =>
        \A dim \in Dimensions :
            \E t \in TrendGlyphs \cup {<<>>} :
                patterns[1][dim]
                    = Dominant(HistoryColumn(recentKeys, dim)) \o t

\* C8 - Aggregate trend: for every dimension, the appended trend glyph is UP
\* only if UP glyphs strictly outnumber every other category across the
\* history, else DOWN, STABLE, CYCLIC under the same rule in that order, and
\* none of these when no category strictly exceeds all others.
AggregateTrendGlyph ==
    Compressed =>
        \A dim \in Dimensions :
            LET agg == AggregateTrend(HistoryColumn(recentKeys, dim))
                pattern == patterns[1][dim]
                appended == SubSeq(pattern, Len(pattern) - 1, Len(pattern))
            IN  /\ appended = UP <=> agg = "UP"
                /\ agg = "DOWN" => appended = DOWN
                /\ agg = "STABLE" => appended = STABLE
                /\ agg = "CYCLIC" => appended = CYCLIC

\* C9 - SuperKey envelope: the SuperKey is [[x7, then the full regular
\* grammar from the topic group onward, then ]]; the ratio literal is 7
\* whatever the number of keys.
SuperkeyEnvelope ==
    origin = "superkey" =>
        key = SuperPrefix \o assembleEmojikey(patterns[1]) \o <<"]", "]">>

(***************************************************************************)
(* Trust                                                                   *)
(***************************************************************************)
\* number of lock glyphs in a value
LockGlyphs(value) ==
    Cardinality({i \in 1..Len(value) : OccursAt(value, Lock, i)})

TrustPhrase(n) ==
    CASE n = 0 -> "Trust not yet established"
      [] n = 1 -> "Initial trust forming"
      [] n = 2 -> "Medium trust developing"
      [] n >= 3 -> "High trust established"

\* C10 - Trust thresholds: the trustLevel of an interpretation depends only
\* on the number of lock glyphs in the 1st pipe group of the key: 0, 1, 2
\* and 3 or more give the four phrases, whatever else the value holds.
TrustThresholds ==
    report # <<>> =>
        report[1].trustLevel = TrustPhrase(LockGlyphs(PipeContent(key, 1)))

\* a trust value of more than three locks separated by trend glyphs was
\* interpreted as high trust
ManyLocksWithTrendsInterpreted ==
    /\ report # <<>>
    /\ Encoded
    /\ LockGlyphs(s.trust) > 3
    /\ Includes(s.trust, STABLE)
    /\ report[1].trustLevel = "High trust established"

(***************************************************************************)
(* Interpretation of encoded keys                                          *)
(***************************************************************************)
MaxTrends == 4    \* most trend glyphs in a key

RECURSIVE Repeat(_, _)
Repeat(glyph, n) == IF n = 0 THEN <<>> ELSE glyph \o Repeat(glyph, n - 1)

\* a record without any trend glyph
BaseRecord ==
    [topic |-> Laptop \o Lens,
     approach |-> Lens \o Thinking,
     goal |-> Target \o Star,
     tone |-> Smile \o Rocket,
     context |-> Rainbow \o Puzzle,
     trust |-> Lock \o Lock,
     style |-> Chart,
     humor |-> Joy,
     collab |-> Handshake]

\* records with u UP, d DOWN, st STABLE and c CYCLIC glyphs, spread over
\* four dimensions
TrendRecords ==
    {[BaseRecord EXCEPT !.topic = @ \o Repeat(UP, n[1]),
                        !.goal = @ \o Repeat(DOWN, n[2]),
                        !.trust = @ \o Repeat(STABLE, n[3]),
                        !.collab = @ \o Repeat(CYCLIC, n[4])] :
        n \in {m \in (0..MaxTrends) \X (0..MaxTrends)
                        \X (0..MaxTrends) \X (0..MaxTrends) :
                  m[1] + m[2] + m[3] + m[4] <= MaxTrends}}

TableDimensions == {"topic", "approach", "goal", "tone", "context"}

TableOf(dim) ==
    CASE dim = "topic" -> topicMap
      [] dim = "approach" -> approachMap
      [] dim = "goal" -> goalMap
      [] dim = "tone" -> toneMap
      [] dim = "context" -> contextMap

\* records holding a table entry, alone or followed by one trend glyph, in
\* one dimension
TableRecords ==
    {[BaseRecord EXCEPT ![x[1]] = x[2][1] \o x[3]] :
        x \in {y \in TableDimensions
                       \X (topicMap \cup approachMap \cup goalMap
                               \cup toneMap \cup contextMap)
                       \X (TrendGlyphs \cup {<<>>}) :
                  y[2] \in TableOf(y[1])}}

Neutral == <<"D83D", "DE10">>

\* records with the glyph and trend combinations of style, humor and collab
PhraseRecords ==
    {[BaseRecord EXCEPT !.style = v] :
        v \in {e[1] : e \in styleMap} \cup {Chart \o UpRight \o UP}}
        \cup {[BaseRecord EXCEPT !.humor = v] :
                 v \in {Joy \o UP, Joy \o STABLE, Joy \o DOWN,
                        Neutral \o STABLE, Smile \o Joy \o UP}}
        \cup {[BaseRecord EXCEPT !.collab = v] :
                 v \in {Handshake \o UP \o UP, Handshake \o UP,
                        Handshake \o STABLE, Handshake \o DOWN,
                        Handshake \o UpRight}}

InitInterpret ==
    /\ s \in TrendRecords \cup TableRecords \cup PhraseRecords
    /\ key = <<>>
    /\ origin = "none"
    /\ parsed = <<>>
    /\ report = <<>>
    /\ recentKeys = <<>>
    /\ patterns = <<>>
    /\ error = ""
    /\ op = "init"
    /\ prev = <<>>
    /\ signal = <<>>
    /\ input = <<>>
    /\ output = <<>>
    /\ schedule = <<>>
    /\ now = <<>>
    /\ trace = <<>>
    /\ pc = "idle"

NextInterpret ==
    \/ AssembleEmojikey
    \/ GenerateEmojikey
    \/ InterpretEmojikey

SpecInterpret == InitInterpret /\ [][NextInterpret]_vars

\* number of places where glyph occurs in str
Places(str, glyph) ==
    Cardinality({i \in 1..Len(str) : OccursAt(str, glyph, i)})

OverallTrendRule(u, d, st, c) ==
    IF u > d /\ u > st THEN "improving"
    ELSE IF d > u /\ d > st THEN "declining"
    ELSE IF st > u /\ st > d THEN "stable"
    ELSE IF c > u /\ c > d /\ c > st THEN "fluctuating"
    ELSE "mixed"

\* C11 - Overall trend: with u, d, st, c the numbers of UP, DOWN, STABLE and
\* CYCLIC glyphs in the whole raw key, overallTrend is improving, declining,
\* stable, fluctuating or mixed by the fixed priority rule; u = d = 2 with
\* st = c = 0 gives mixed.
OverallTrend ==
    report # <<>> =>
        /\ report[1].overallTrend
               = OverallTrendRule(Places(key, UP), Places(key, DOWN),
                                  Places(key, STABLE), Places(key, CYCLIC))
        /\ report[1].overallTrend
               \in {"improving", "declining", "stable", "fluctuating",
                    "mixed"}
        /\ (/\ Places(key, UP) = 2
            /\ Places(key, DOWN) = 2
            /\ Places(key, STABLE) = 0
            /\ Places(key, CYCLIC) = 0) => report[1].overallTrend = "mixed"

\* a key with two UP and two DOWN glyphs and no other trend glyph was
\* interpreted as mixed
TwoUpTwoDownIsMixed ==
    /\ report # <<>>
    /\ Places(key, UP) = 2
    /\ Places(key, DOWN) = 2
    /\ Places(key, STABLE) = 0
    /\ Places(key, CYCLIC) = 0
    /\ report[1].overallTrend = "mixed"

\* the report field of a dimension
FieldOf(dim) ==
    CASE dim = "topic" -> "topicFocus"
      [] dim = "approach" -> "approachStyle"
      [] dim = "goal" -> "relationshipGoals"
      [] dim = "tone" -> "emotionalTone"
      [] dim = "context" -> "interactionContext"
      [] dim = "trust" -> "trustLevel"
      [] dim = "style" -> "communicationStyle"
      [] dim = "humor" -> "humorAlignment"
      [] dim = "collab" -> "collaborationPattern"

\* the phrase reported for a dimension that is missing or not recognised
DefaultPhrase(dim) ==
    CASE dim = "topic" -> "General tech discussion"
      [] dim = "approach" -> "General exploratory approach"
      [] dim = "goal" -> "General exploration goals"
      [] dim = "tone" -> "Neutral professional tone"
      [] dim = "context" -> "General digital context"
      [] dim = "trust" -> "Trust not yet established"
      [] dim = "style" -> "Standard communication style"
      [] dim = "humor" -> "Balanced humor approach"
      [] dim = "collab" -> "Standard collaborative pattern"

\* C12 - Default interpretation: interpreting the key generateEmojikey
\* returns for an empty record gives the default phrase for topic, approach,
\* goal, tone, context, style, humor and collab.
DefaultInterpretation ==
    (origin = "generate" /\ report # <<>>) =>
        \A dim \in Dimensions \ {"trust"} :
            report[1][FieldOf(dim)] = DefaultPhrase(dim)

\* the key of the default components was generated and interpreted
DefaultKeyInterpreted ==
    /\ origin = "generate"
    /\ op = "interpretEmojikey"
    /\ key = assembleEmojikey(DefaultComponents)
    /\ report # <<>>
    /\ report[1].topicFocus = "General tech discussion"
    /\ report[1].collaborationPattern = "Standard collaborative pattern"

\* value is an entry of the table, alone or followed by one trend glyph
EntriesOf(dim, value) ==
    {e \in TableOf(dim) :
        \E t \in TrendGlyphs \cup {<<>>} : value = e[1] \o t}

\* C13 - Table lookup with trend stripping: for topic, approach, goal, tone
\* and context, a value that is a table entry, alone or followed by one
\* trailing trend glyph, is reported with the entry's description, and a
\* value matching no entry with the default phrase.
TableLookup ==
    (origin = "assemble" /\ report # <<>>) =>
        \A dim \in TableDimensions :
            /\ \A e \in EntriesOf(dim, s[dim]) :
                   report[1][FieldOf(dim)] = e[2]
            /\ (\A e \in TableOf(dim) : ~StartsWith(s[dim], e[1])) =>
                   report[1][FieldOf(dim)] = DefaultPhrase(dim)

\* the first rule of an ordered list whose combination occurs in value
RECURSIVE FirstMatch(_, _, _)
FirstMatch(rules, value, fallback) ==
    IF rules = <<>> THEN fallback
    ELSE IF Includes(value, Head(rules)[1]) THEN Head(rules)[2]
    ELSE FirstMatch(Tail(rules), value, fallback)

StyleRules ==
    <<<<Chart \o UpRight, "Data-driven with positive trends">>,
      <<Speech \o STABLE, "Conversational and stable">>,
      <<Target \o UP, "Focused and improving">>,
      <<Puzzle \o CYCLIC, "Problem-solving with changing approaches">>,
      <<<<"D83D", "DCDD">> \o UP, "Detailed and progressive">>>>

HumorRules ==
    <<<<Joy \o UP, "High and increasing humor">>,
      <<Joy \o STABLE, "Consistent moderate humor">>,
      <<Joy \o DOWN, "Decreasing humor level">>,
      <<Neutral \o STABLE, "Limited humor, primarily serious">>>>

CollabRules ==
    <<<<Handshake \o UP \o UP, "Strongly increasing collaboration">>,
      <<Handshake \o UP, "Growing collaboration">>,
      <<Handshake \o STABLE, "Stable collaborative relationship">>,
      <<Handshake \o DOWN, "Decreasing collaboration">>>>

\* C14 - First-match substring rules: style, humor and collab are reported
\* with the phrase of the first known combination, in list order, that
\* occurs in the dimension's value, and with the default phrase when none
\* occurs.
FirstMatchPhrases ==
    (Encoded /\ report # <<>>) =>
        /\ report[1].communicationStyle
               = FirstMatch(StyleRules, s.style, DefaultPhrase("style"))
        /\ report[1].humorAlignment
               = FirstMatch(HumorRules, s.humor, DefaultPhrase("humor"))
        /\ report[1].collaborationPattern
               = FirstMatch(CollabRules, s.collab, DefaultPhrase("collab"))

(***************************************************************************)
(* Stored and truncated keys                                               *)
(***************************************************************************)
Units(str, unit) == Cardinality(Indexes(str, unit))

\* the delimiters the group of a dimension needs are not all in the key
Absent(str, dim) ==
    CASE dim = "topic" -> Units(str, "[") = 0 \/ Units(str, "]") = 0
      [] dim = "approach" -> Units(str, "27E8") = 0 \/ Units(str, "27E9") = 0
      [] dim = "goal" -> Units(str, "[") < 2 \/ Units(str, "]") < 2
      [] dim = "tone" -> Units(str, "{") = 0 \/ Units(str, "}") = 0
      [] dim = "context" -> Units(str, "~") = 0
      [] dim = "trust" -> Units(str, "|") < 2
      [] dim = "style" -> Units(str, "|") < 3
      [] dim = "humor" -> Units(str, "|") < 4
      [] dim = "collab" -> Units(str, "|") < 5

\* fewer than two bracket groups, no brace group, no context group or fewer
\* than four pipe groups
LacksRequiredGroup(str) ==
    \/ Absent(str, "goal")
    \/ Absent(str, "tone")
    \/ Absent(str, "context")
    \/ Absent(str, "collab")

EncoderTotality ==
    op \in {"createEmojikey", "generateEmojikey"} =>
        /\ error = ""
        /\ origin \in {"create", "generate"}
        /\ key = assembleEmojikey(Positional(key))
        /\ \A dim \in Dimensions : Positional(key)[dim] # <<>>

ReportFields ==
    {FieldOf(dim) : dim \in Dimensions} \cup {"isSuperKey", "overallTrend"}

\* no entry of the dimension's table occurs anywhere in the key
Unrecognised(str, dim) ==
    /\ dim \in TableDimensions
    /\ \A e \in TableOf(dim) : ~Includes(str, e[1])

\* C17 - Interpreter never fails: for every input string (empty, without
\* delimiter groups, truncated) interpretEmojikey returns a complete report
\* of nine dimension fields, isSuperKey and overallTrend, with the default
\* phrase for every dimension it cannot find or recognise.
InterpreterNeverFails ==
    op = "interpretEmojikey" =>
        /\ error = ""
        /\ report # <<>>
        /\ DOMAIN report[1] = ReportFields
        /\ \A dim \in Dimensions :
               (Absent(key, dim) \/ Unrecognised(key, dim)) =>
                   report[1][FieldOf(dim)] = DefaultPhrase(dim)

\* the three-group key of memory_check.js was interpreted: its missing tone
\* and its unlisted topic are reported with the default phrases
TruncatedKeyInterpreted ==
    /\ op = "interpretEmojikey"
    /\ origin = "stored"
    /\ Absent(key, "tone")
    /\ Includes(key, Laptop \o Lock)
    /\ report # <<>>
    /\ report[1].emotionalTone = "Neutral professional tone"
    /\ report[1].topicFocus = "General tech discussion"
    /\ report[1].trustLevel = "Trust not yet established"

(***************************************************************************)
(* Update cycle                                                            *)
(***************************************************************************)
\* the update was made on the canonical key of the record s
CanonicalUpdate ==
    /\ op \in {"updateEmojikey", "parseEmojikey"}
    /\ origin = "update"
    /\ prev = assembleEmojikey(s)

\* C18 - Update keeps glyph sequences: parsing updateEmojikey(k, ctx) of a
\* canonical key k gives, for each of the nine dimensions, the glyph
\* sequence that dimension has in k.
UpdateKeepsGlyphs ==
    (CanonicalUpdate /\ parsed # <<>>) =>
        \A dim \in Dimensions : parsed[1][dim] = s[dim]

StripTrailingTrend(value) ==
    IF \E t \in TrendGlyphs : EndsWith(value, t)
    THEN SubSeq(value, 1,
                Len(value) - Len(CHOOSE t \in TrendGlyphs :
                                     EndsWith(value, t)))
    ELSE value

TrendOfDelta(delta) ==
    CASE delta = "increase" -> UP
      [] delta = "decrease" -> DOWN
      [] delta = "no-change" -> STABLE
      [] delta = "oscillating" -> CYCLIC
      [] delta = "unknown" -> <<>>

\* C19 - Update trend mapping: in the updated key each dimension carries the
\* trend glyph of its change (increase UP, decrease DOWN, no-change STABLE,
\* oscillating CYCLIC, unknown none), which replaces a trend glyph that was
\* already there.
UpdateTrendMapping ==
    (CanonicalUpdate /\ op = "updateEmojikey") =>
        \A dim \in Dimensions :
            Positional(key)[dim]
                = StripTrailingTrend(s[dim]) \o TrendOfDelta(signal[dim])

\* C20 - Update cycle invariant: after any number of updateEmojikey calls
\* from a canonical key the key is well-formed, has a value in all nine
\* dimensions and is unchanged by parse and re-assembly.
UpdateCycleInvariant ==
    origin = "update" =>
        /\ key = assembleEmojikey(Positional(key))
        /\ \A dim \in Dimensions : Positional(key)[dim] # <<>>
        /\ assembleEmojikey(parseEmojikey(key)) = key

\* the documented pattern with a value in each of the nine dimensions
FollowsPattern(str) ==
    /\ \A dim \in Dimensions : ~Absent(str, dim)
    /\ str = assembleEmojikey(Positional(str))
    /\ \A dim \in Dimensions : Positional(str)[dim] # <<>>

\* C22 - Every emojikey the system produces or stores (createEmojikey,
\* generateEmojikey and its fallback, updateEmojikey, the new-follower
\* initial key, the key checkMemory returns) follows the pattern
\* [topic]<approach>[goal]{tone}->~[context]|trust|style|humor|collab| with
\* all nine dimensions present in that order.
KeyPattern ==
    (origin \in {"stored", "create", "generate", "update"} /\ error = "") =>
        FollowsPattern(key)

(***************************************************************************)
(* Interaction flow (src/index.js)                                         *)
(***************************************************************************)
\* agent state while the codec is used on its own, and back
AgentIdle ==
    /\ input = <<>>
    /\ output = <<>>
    /\ schedule = <<>>
    /\ now = <<>>
    /\ trace = <<>>
    /\ pc = "idle"

CodecIdle ==
    /\ s = DefaultComponents
    /\ key = <<>>
    /\ origin = "none"
    /\ parsed = <<>>
    /\ report = <<>>
    /\ recentKeys = <<>>
    /\ patterns = <<>>
    /\ error = ""
    /\ op = "init"
    /\ prev = <<>>
    /\ signal = <<>>

Usernames == {"lux.bsky.social", "izzyz.bsky.social", "ninjaowl.ai"}
Contents == {"", "post", "article"}
InteractionTypes == {"new_follower", "comment", "content_share", "like"}

Interactions ==
    [username : Usernames, content : Contents,
     interactionType : InteractionTypes]

\* what relationship_tracker.js exports
relationshipTrackerExports == {"generateEmojikey", "interpretEmojikey"}

InitInteraction == CodecIdle /\ AgentIdle

\* handleUserInteraction(username, content, interactionType) is called
HandleUserInteraction ==
    /\ pc = "idle"
    /\ output = <<>>
    /\ input' \in Interactions
    /\ pc' = "checkMemory"
    /\ UNCHANGED <<codecVars, output, schedule, now, trace>>

\* 1. await checkMemory(username): always resolves
AwaitCheckMemory ==
    /\ pc = "checkMemory"
    /\ trace' = Append(trace, "checkMemory")
    /\ pc' = "dispatch"
    /\ UNCHANGED <<codecVars, input, output, schedule, now>>

\* 2. the step of the interaction type; both callees always resolve
AwaitTypeStep ==
    /\ pc = "dispatch"
    /\ trace' =
           IF input.interactionType = "new_follower"
           THEN Append(trace, "processNewFollower")
           ELSE IF input.interactionType = "content_share"
           THEN Append(trace, "evaluateContentRelevance")
           ELSE trace
    /\ pc' = "updateRelationshipKey"
    /\ UNCHANGED <<codecVars, input, output, schedule, now>>

\* 3. updateRelationshipKey(...) and what follows it.  The name is
\* destructured from require('./relationship_tracker'); when the module does
\* not export it the call throws TypeError, which the catch turns into the
\* error result.
CallUpdateRelationshipKey ==
    /\ pc = "updateRelationshipKey"
    /\ "updateRelationshipKey" \notin relationshipTrackerExports
    /\ output' =
           <<[status |-> "error",
              message |-> "Interaction flow failed: updateRelationshipKey is not a function"]>>
    /\ pc' = "done"
    /\ UNCHANGED <<codecVars, input, schedule, now, trace>>

NextInteraction ==
    \/ HandleUserInteraction
    \/ AwaitCheckMemory
    \/ AwaitTypeStep
    \/ CallUpdateRelationshipKey

SpecInteraction == InitInteraction /\ [][NextInteraction]_vars

\* the calls of a flow in which every step completes
StepsInOrder(interactionType) ==
    <<"checkMemory">>
        \o (IF interactionType = "new_follower"
            THEN <<"processNewFollower">>
            ELSE IF interactionType = "content_share"
            THEN <<"evaluateContentRelevance">>
            ELSE <<>>)
        \o <<"updateRelationshipKey", "updateMemory">>

IsPrefix(p, q) == Len(p) <= Len(q) /\ SubSeq(q, 1, Len(p)) = p

\* C23 - handleUserInteraction never throws and runs checkMemory, the step
\* of the interaction type, updateRelationshipKey and updateMemory in that
\* order; it returns status success when these steps complete and status
\* error, with a message, only when one of them fails.  checkMemory,
\* processNewFollower and evaluateContentRelevance always resolve, so the
\* calls made so far are a prefix of that order and a finished flow has made
\* all of them and returned success.
InteractionFlow ==
    /\ input # <<>> =>
           IsPrefix(trace, StepsInOrder(input.interactionType))
    /\ pc = "done" =>
           /\ output # <<>>
           /\ output[1].status = "success"
           /\ trace = StepsInOrder(input.interactionType)

(***************************************************************************)
(* Knowledge-graph memory update (memory_update.js, in                     *)
(* src/relationship_tracker.js)                                            *)
(***************************************************************************)
MaxText == 4     \* longest observation text, in characters

\* characters of an observation text; "a" stands for a letter or digit
TextAlphabet == {"@", "#", "a", ".", " "}

\* [a-zA-Z0-9_.] and [a-zA-Z0-9_] over TextAlphabet
HandleClass == {"a", "."}
TagClass == {"a"}

RECURSIVE Strings(_, _)
Strings(alphabet, n) ==
    IF n = 0 THEN {<<>>}
    ELSE LET shorter == Strings(alphabet, n - 1)
         IN  shorter \cup {Append(str, c) : str \in shorter, c \in alphabet}

\* end of the longest run of class characters that starts at i
RECURSIVE RunEnd(_, _, _)
RunEnd(text, class, i) ==
    IF i + 1 <= Len(text) /\ text[i + 1] \in class
    THEN RunEnd(text, class, i + 1)
    ELSE i

\* text.match(/<sigil>([class]+)/g) || []
RECURSIVE MatchNames(_, _, _, _)
MatchNames(text, sigil, class, from) ==
    IF from >= Len(text) THEN <<>>
    ELSE IF text[from] = sigil /\ text[from + 1] \in class
    THEN LET end == RunEnd(text, class, from + 1)
         IN  <<SubSeq(text, from, end)>>
                 \o MatchNames(text, sigil, class, end + 1)
    ELSE MatchNames(text, sigil, class, from + 1)

\* the entity list extractEntities builds, were its template literals
\* evaluated
extractedEntities(observations) ==
    IF observations.text = <<>> THEN <<>>
    ELSE LET handles == MatchNames(observations.text, "@", HandleClass, 1)
             tags == MatchNames(observations.text, "#", TagClass, 1)
         IN  [i \in 1..Len(handles) |->
                 [name |-> Tail(handles[i]), entityType |-> "contact"]]
             \o [i \in 1..Len(tags) |->
                 [name |-> Tail(tags[i]), entityType |-> "interest"]]

\* the names extractEntities can read: its parameter and its locals
extractEntitiesScope ==
    {"observations", "entities", "handlePattern", "hashtags", "handles",
     "handle", "tags", "tag"}

\* each pushed entity evaluates `... with ${username}`: a ReferenceError
\* unless username is in scope
extractEntitiesThrows(observations) ==
    /\ extractedEntities(observations) # <<>>
    /\ "username" \notin extractEntitiesScope

updateEntities(entities) ==
    [created |-> Len(entities), updated |-> 0, entities |-> entities]

updateRelations(username, entities) ==
    LET relations ==
            [i \in 1..Len(entities) |->
                [from |-> username,
                 to |-> entities[i].name,
                 relationType |->
                     IF entities[i].entityType = "contact"
                     THEN "mentioned" ELSE "interested_in"]]
    IN  [created |-> Len(relations), relations |-> relations]

updateMemory(username, newObservations) ==
    IF extractEntitiesThrows(newObservations)
    THEN [status |-> "error",
          message |-> "Failed to update memory: username is not defined"]
    ELSE LET entities == extractedEntities(newObservations)
         IN  [status |-> "success",
              message |-> "Memory updated successfully",
              entities |-> updateEntities(entities),
              relations |-> updateRelations(username, entities)]

Observations ==
    [username : Usernames, text : Strings(TextAlphabet, MaxText)]

InitMemory ==
    /\ CodecIdle
    /\ input \in Observations
    /\ output = <<>>
    /\ schedule = <<>>
    /\ now = <<>>
    /\ trace = <<>>
    /\ pc = "idle"

UpdateMemory ==
    /\ output = <<>>
    /\ output' = <<updateMemory(input.username, input)>>
    /\ UNCHANGED <<codecVars, input, schedule, now, trace, pc>>

NextMemory == UpdateMemory

SpecMemory == InitMemory /\ [][NextMemory]_vars

\* places of text where a name with the given sigil starts
NameStarts(text, sigil, class) ==
    {i \in 1..(Len(text) - 1) : text[i] = sigil /\ text[i + 1] \in class}

EntitiesOfType(result, entityType) ==
    {i \in 1..Len(result.entities.entities) :
        result.entities.entities[i].entityType = entityType}

\* C24 - Knowledge-graph updateMemory: for observations whose text holds n
\* handles and m hashtags, updateMemory returns status success with n contact
\* and m interest entities (entities.created = n + m) and one relation per
\* entity from the user, mentioned for a contact and interested_in for an
\* interest, so relations.created = entities.created.
KnowledgeGraphUpdate ==
    output # <<>> =>
        LET result == output[1]
            n == Cardinality(NameStarts(input.text, "@", HandleClass))
            m == Cardinality(NameStarts(input.text, "#", TagClass))
        IN  /\ result.status = "success"
            /\ result.entities.created = n + m
            /\ Cardinality(EntitiesOfType(result, "contact")) = n
            /\ Cardinality(EntitiesOfType(result, "interest")) = m
            /\ result.relations.created = result.entities.created
            /\ \A i \in 1..Len(result.relations.relations) :
                   LET relation == result.relations.relations[i]
                       entity == result.entities.entities[i]
                   IN  /\ relation.from = input.username
                       /\ relation.to = entity.name
                       /\ relation.relationType =
                              IF entity.entityType = "contact"
                              THEN "mentioned" ELSE "interested_in"

(***************************************************************************)
(* Topic suggestions and posting schedule (src/topic_suggestions.js,       *)
(* posting_scheduler.js in src/unnamed/part_001)                           *)
(***************************************************************************)
MaxFollowers == 1    \* longest follower list
MaxPosts == 7        \* largest postsPerWeek

Min(a, b) == IF a < b THEN a ELSE b

\* seq.slice(from, to) for 0 <= from and 0 <= to
ArraySlice(seq, from, to) == SubSeq(seq, from + 1, Min(to, Len(seq)))

\* data.knownInterests of checkMemory, the same for every follower
knownInterests == <<"cybersecurity", "quantum computing">>

\* generateSpecificSuggestions: the topicMap entry of the interest, or the
\* three generic topics
specificTopics(interest) ==
    IF interest = "cybersecurity"
    THEN <<[topic |-> "Zero-day vulnerabilities and responsible disclosure",
            type |-> "discussion"],
           [topic |-> "Building a basic security scanning tool",
            type |-> "tutorial"],
           [topic |-> "The evolution of ransomware tactics",
            type |-> "analysis"]>>
    ELSE <<[topic |-> "Latest developments in quantum computing",
            type |-> "news"],
           [topic |-> "The future of quantum computing",
            type |-> "discussion"],
           [topic |-> "Getting started with quantum computing",
            type |-> "tutorial"]>>

generateSpecificSuggestions(interestData) ==
    LET topics == specificTopics(interestData.interest)
    IN  [i \in 1..Len(topics) |->
            [topic |-> topics[i].topic,
             type |-> topics[i].type,
             relevanceScore |-> interestData.relevanceScore,
             baseInterest |-> interestData.interest]]

RECURSIVE FlatMap(_)
FlatMap(seqs) == IF seqs = <<>> THEN <<>> ELSE Head(seqs) \o FlatMap(Tail(seqs))

\* every follower has both known interests, so both counts are the number of
\* followers and both scores are 100; the two (stable) sorts keep the order
generateTopicSuggestions(followers, limit) ==
    LET sortedInterests ==
            IF followers = <<>> THEN <<>>
            ELSE [i \in 1..Len(knownInterests) |->
                     [interest |-> knownInterests[i],
                      followerCount |-> Len(followers),
                      relevanceScore |->
                          (Len(followers) * 100) \div Len(followers)]]
        suggestions ==
            FlatMap([i \in 1..Min(Len(sortedInterests), limit * 2) |->
                        generateSpecificSuggestions(sortedInterests[i])])
    IN  ArraySlice(suggestions, 0, limit)

\* the fields of formatTopicForPost's result the scheduler reads
formatTopicForPost(suggestion) ==
    [topic |-> suggestion.topic, type |-> suggestion.type]

\* suggestPostingTimes(followers).bestTimes
bestTimes ==
    <<[day |-> "Tuesday", time |-> <<"1", "0", ":", "0", "0">>],
      [day |-> "Wednesday", time |-> <<"1", "4", ":", "0", "0">>],
      [day |-> "Thursday", time |-> <<"1", "1", ":", "0", "0">>]>>

daysOfWeek == <<"Monday", "Tuesday", "Wednesday", "Thursday", "Friday">>

standardTimes ==
    <<<<"9", ":", "0", "0">>, <<"1", "2", ":", "0", "0">>,
      <<"1", "5", ":", "0", "0">>, <<"1", "8", ":", "0", "0">>>>

SlotCount == Len(daysOfWeek) * Len(standardTimes)

SlotDay(slotIndex) ==
    daysOfWeek[((slotIndex \div Len(standardTimes)) % Len(daysOfWeek)) + 1]

SlotTime(slotIndex) == standardTimes[(slotIndex % Len(standardTimes)) + 1]

SlotUsed(sched, slotIndex) ==
    \E i \in 1..Len(sched) :
        /\ sched[i].day = SlotDay(slotIndex)
        /\ sched[i].time = SlotTime(slotIndex)

\* the while loop: the first slot from slotIndex on that is not in the
\* schedule, SlotCount when there is none
RECURSIVE FindSlot(_, _)
FindSlot(sched, slotIndex) ==
    IF slotIndex >= SlotCount THEN slotIndex
    ELSE IF ~SlotUsed(sched, slotIndex) THEN slotIndex
    ELSE FindSlot(sched, slotIndex + 1)

\* variant: the slot is taken without the check against the schedule, and
\* the same slot is tried again for the next topic
RECURSIVE FillSlotsNoAdvance(_, _, _)
FillSlotsNoAdvance(topics, sched, slotIndex) ==
    IF topics = <<>> THEN sched
    ELSE FillSlotsNoAdvance(
             Tail(topics),
             Append(sched,
                    [day |-> SlotDay(slotIndex),
                     time |-> SlotTime(slotIndex),
                     topic |-> formatTopicForPost(Head(topics)),
                     priority |-> "medium",
                     status |-> "scheduled"]),
             slotIndex)

\* remainingTopics.forEach: one medium entry per topic while slots are left
RECURSIVE FillSlots(_, _, _)
FillSlots(topics, sched, slotIndex) ==
    IF topics = <<>> THEN sched
    ELSE LET slot == FindSlot(sched, slotIndex)
         IN  FillSlots(
                 Tail(topics),
                 IF slot < SlotCount
                 THEN Append(sched,
                             [day |-> SlotDay(slot),
                              time |-> SlotTime(slot),
                              topic |-> formatTopicForPost(Head(topics)),
                              priority |-> "medium",
                              status |-> "scheduled"])
                 ELSE sched,
                 slot + 1)

createPostingSchedule(followers, postsPerWeek) ==
    LET topicSuggestions ==
            generateTopicSuggestions(followers, postsPerWeek * 2)
        priorityTopics == ArraySlice(topicSuggestions, 0, postsPerWeek \div 2)
        high ==
            [i \in 1..Min(Len(priorityTopics), Len(bestTimes)) |->
                [day |-> bestTimes[i].day,
                 time |-> bestTimes[i].time,
                 topic |-> formatTopicForPost(priorityTopics[i]),
                 priority |-> "high",
                 status |-> "scheduled"]]
        remainingTopics ==
            ArraySlice(topicSuggestions, postsPerWeek \div 2, postsPerWeek)
    IN  FillSlots(remainingTopics, high, 0)

RECURSIVE Lists(_, _)
Lists(S, n) ==
    IF n = 0 THEN {<<>>}
    ELSE LET shorter == Lists(S, n - 1)
         IN  shorter \cup {Append(l, x) : l \in shorter, x \in S}

FollowerLists ==
    Lists({[handle |-> u] : u \in {"lux.bsky.social", "ninjaowl.ai"}},
          MaxFollowers)


\* Number(str) for a string of decimal digits
DigitValue(c) ==
    CHOOSE n \in 0..9 :
        <<"0", "1", "2", "3", "4", "5", "6", "7", "8", "9">>[n + 1] = c

RECURSIVE ToNumber(_)
ToNumber(digits) ==
    IF digits = <<>> THEN 0
    ELSE ToNumber(SubSeq(digits, 1, Len(digits) - 1)) * 10
             + DigitValue(digits[Len(digits)])

\* post.time.split(':').map(Number), for a time with one colon
SplitTime(time) ==
    LET colon == CHOOSE i \in 1..Len(time) : time[i] = ":"
    IN  <<ToNumber(SubSeq(time, 1, colon - 1)),
          ToNumber(SubSeq(time, colon + 1, Len(time)))>>

\* minutesDifference of a post at the current time
minutesDifference(post, current) ==
    (current.hour * 60 + current.minute)
        - (SplitTime(post.time)[1] * 60 + SplitTime(post.time)[2])

\* variant: a post is due from 15 minutes before its time on
inWindowAround(post, current) ==
    /\ post.day = current.day
    /\ post.status = "scheduled"
    /\ minutesDifference(post, current) >= 0 - 15
    /\ minutesDifference(post, current) <= 15

\* the test of the for loop
inWindow(post, current) ==
    /\ post.day = current.day
    /\ post.status = "scheduled"
    /\ minutesDifference(post, current) >= 0
    /\ minutesDifference(post, current) <= 15

\* <<>> for null, <<post>> for the post returned
checkScheduleForPosts(sched, current) ==
    IF \E i \in 1..Len(sched) : inWindow(sched[i], current)
    THEN LET first ==
                 CHOOSE i \in 1..Len(sched) :
                     /\ inWindow(sched[i], current)
                     /\ \A j \in 1..(i - 1) : ~inWindow(sched[j], current)
         IN  <<[scheduledFor |-> SplitTime(sched[first].time)]
                   @@ sched[first]>>
    ELSE <<>>

\* variant: the post is looked up by its day alone
samePostByDay(scheduledPost, post) == scheduledPost.day = post.day

\* the test of updatePostStatus
samePost(scheduledPost, post) ==
    /\ scheduledPost.day = post.day
    /\ scheduledPost.time = post.time
    /\ scheduledPost.topic.topic = post.topic.topic

updatePostStatus(sched, post, status) ==
    [i \in 1..Len(sched) |->
        IF samePost(sched[i], post)
        THEN [status |-> status,
              publishedAt |->
                  IF status = "published" THEN "now" ELSE "undefined",
              postUri |-> "undefined"] @@ sched[i]
        ELSE sched[i]]

\* schedules handed to the scheduler that it did not just create
ReceivedSchedules ==
    {<<[day |-> "Monday", time |-> <<"9", ":", "0", "0">>,
        topic |-> [topic |-> "The future of quantum computing",
                   type |-> "discussion"],
        priority |-> "medium", status |-> "published"],
       [day |-> "Monday", time |-> <<"9", ":", "1", "0">>,
        topic |-> [topic |-> "The evolution of ransomware tactics",
                   type |-> "analysis"],
        priority |-> "medium", status |-> "scheduled"],
       [day |-> "Monday", time |-> <<"9", ":", "1", "5">>,
        topic |-> [topic |-> "Building a basic security scanning tool",
                   type |-> "tutorial"],
        priority |-> "high", status |-> "scheduled"],
       [day |-> "Tuesday", time |-> <<"9", ":", "1", "0">>,
        topic |-> [topic |-> "The evolution of ransomware tactics",
                   type |-> "analysis"],
        priority |-> "medium", status |-> "scheduled"]>>}

\* the days and times of day at which the schedule is checked
Clock ==
    [day : {"Sunday", "Monday", "Tuesday"},
     hour : {9, 10},
     minute : {0, 10, 15, 16, 25, 31}]

InitPosting == CodecIdle /\ AgentIdle

CreatePostingSchedule ==
    /\ pc = "idle"
    /\ \E followers \in FollowerLists, postsPerWeek \in 0..MaxPosts :
           /\ input' = [followers |-> followers,
                        postsPerWeek |-> postsPerWeek]
           /\ schedule' = createPostingSchedule(followers, postsPerWeek)
    /\ pc' = "created"
    /\ UNCHANGED <<codecVars, output, now, trace>>

ReceiveSchedule ==
    /\ pc = "idle"
    /\ \E sched \in ReceivedSchedules :
           /\ input' = [schedule |-> sched]
           /\ schedule' = sched
    /\ pc' = "received"
    /\ UNCHANGED <<codecVars, output, now, trace>>

CheckScheduleForPosts ==
    /\ pc \in {"created", "received"}
    /\ \E current \in Clock :
           /\ now' = current
           /\ output' = <<checkScheduleForPosts(schedule, current)>>
    /\ UNCHANGED <<codecVars, input, schedule, trace, pc>>

\* the post checkScheduleForPosts returned is marked published or failed
UpdatePostStatus ==
    /\ output # <<>>
    /\ output[1] # <<>>
    /\ \E status \in {"published", "failed"} :
           /\ schedule' = updatePostStatus(schedule, output[1][1], status)
           /\ trace' = Append(trace,
                              [day |-> output[1][1].day,
                               time |-> output[1][1].time,
                               topic |-> output[1][1].topic.topic,
                               status |-> status])
    /\ output' = <<>>
    /\ UNCHANGED <<codecVars, input, now, pc>>

NextPosting ==
    \/ CreatePostingSchedule
    \/ ReceiveSchedule
    \/ CheckScheduleForPosts
    \/ UpdatePostStatus

SpecPosting == InitPosting /\ [][NextPosting]_vars


\* C25 - Posting schedule slots: the schedule createPostingSchedule returns
\* holds at most postsPerWeek entries, no two entries share the same day and
\* time, every entry has status scheduled, and each medium entry is in a
\* slot that no earlier entry of the schedule has.
PostingScheduleSlots ==
    (pc = "created" /\ trace = <<>>) =>
        /\ Len(schedule) <= input.postsPerWeek
        /\ \A i, j \in 1..Len(schedule) :
               (/\ schedule[i].day = schedule[j].day
                /\ schedule[i].time = schedule[j].time) => i = j
        /\ \A i \in 1..Len(schedule) :
               /\ schedule[i].status = "scheduled"
               /\ schedule[i].priority = "medium" =>
                      \A j \in 1..(i - 1) :
                          \/ schedule[j].day # schedule[i].day
                          \/ schedule[j].time # schedule[i].time

\* a schedule of three high and three medium entries was created for six
\* posts per week
FullWeekScheduled ==
    /\ pc = "created"
    /\ trace = <<>>
    /\ input.postsPerWeek = 6
    /\ Len(schedule) = 6
    /\ schedule[3].priority = "high"
    /\ schedule[4].priority = "medium"
    /\ schedule[4].day = "Monday"
    /\ schedule[6].time = <<"1", "5", ":", "0", "0">>

\* minutes after midnight of the times of day that occur in schedules
MinutesOf(time) ==
    CASE time = <<"9", ":", "0", "0">> -> 540
      [] time = <<"9", ":", "1", "0">> -> 550
      [] time = <<"9", ":", "1", "5">> -> 555
      [] time = <<"1", "0", ":", "0", "0">> -> 600
      [] time = <<"1", "1", ":", "0", "0">> -> 660
      [] time = <<"1", "2", ":", "0", "0">> -> 720
      [] time = <<"1", "4", ":", "0", "0">> -> 840
      [] time = <<"1", "5", ":", "0", "0">> -> 900
      [] time = <<"1", "8", ":", "0", "0">> -> 1080

\* entry i of the schedule is due now
Due(i) ==
    /\ schedule[i].status = "scheduled"
    /\ schedule[i].day = now.day
    /\ now.hour * 60 + now.minute - MinutesOf(schedule[i].time) \in 0..15

\* the post without the scheduledFor field the check adds
AsScheduled(post) == [f \in DOMAIN post \ {"scheduledFor"} |-> post[f]]

\* C26 - Posting window: checkScheduleForPosts returns a post only if its
\* status is scheduled, its day is the current day and the current time is 0
\* to 15 minutes after its scheduled time; of several such posts it returns
\* the first in schedule order; it returns null when there is none and never
\* a post whose time is still to come.
PostingWindow ==
    output # <<>> =>
        IF output[1] = <<>>
        THEN \A i \in 1..Len(schedule) : ~Due(i)
        ELSE \E i \in 1..Len(schedule) :
                 /\ AsScheduled(output[1][1]) = schedule[i]
                 /\ Due(i)
                 /\ \A j \in 1..(i - 1) : ~Due(j)
                 /\ MinutesOf(schedule[i].time)
                        <= now.hour * 60 + now.minute

\* two posts are due at once and the first of them was returned, behind a
\* published post whose window is open as well
FirstOfTwoDueReturned ==
    /\ output # <<>>
    /\ output[1] # <<>>
    /\ Len(schedule) >= 3
    /\ schedule[1].status = "published"
    /\ schedule[1].day = now.day
    /\ now.hour * 60 + now.minute - MinutesOf(schedule[1].time) \in 0..15
    /\ Due(2)
    /\ Due(3)
    /\ AsScheduled(output[1][1]) = schedule[2]

\* the schedule before any status was updated
OriginalSchedule ==
    IF pc = "received" THEN input.schedule
    ELSE createPostingSchedule(input.followers, input.postsPerWeek)

\* the entry was the post of an update to published
Published(entry) ==
    \E k \in 1..Len(trace) :
        /\ trace[k].status = "published"
        /\ trace[k].day = entry.day
        /\ trace[k].time = entry.time
        /\ trace[k].topic = entry.topic.topic

Updated(entry) ==
    \E k \in 1..Len(trace) :
        /\ trace[k].day = entry.day
        /\ trace[k].time = entry.time
        /\ trace[k].topic = entry.topic.topic

\* C27 - Publish at most once: once updatePostStatus has set a post that
\* checkScheduleForPosts returned to published, no later check returns that
\* post, at any time, while every other post keeps its fields and status and
\* the schedule keeps its length and order.
PublishAtMostOnce ==
    pc \in {"created", "received"} =>
        /\ (output # <<>> /\ output[1] # <<>>) => ~Published(output[1][1])
        /\ Len(schedule) = Len(OriginalSchedule)
        /\ \A i \in 1..Len(schedule) :
               /\ ~Updated(OriginalSchedule[i]) =>
                      schedule[i] = OriginalSchedule[i]
               /\ schedule[i].day = OriginalSchedule[i].day
               /\ schedule[i].time = OriginalSchedule[i].time
               /\ schedule[i].topic = OriginalSchedule[i].topic

\* a post was published and the schedule was checked again within its
\* window: another post, or none, was returned
CheckedAgainAfterPublishing ==
    /\ trace # <<>>
    /\ trace[1].status = "published"
    /\ output # <<>>
    /\ now.day = trace[1].day
    /\ now.hour * 60 + now.minute - MinutesOf(trace[1].time) \in 0..15
    /\ \E i \in 1..Len(schedule) :
           /\ schedule[i].status = "published"
           /\ schedule[i].day = trace[1].day
           /\ schedule[i].time = trace[1].time


(***************************************************************************)
(* Post validation (posting_scheduler.js in src/unnamed/part_001)          *)
(***************************************************************************)
lengthLimit == 300
warnLength == 280
maxHashtags == 5

LowerLetters ==
    <<"a", "b", "c", "d", "e", "f", "g", "h", "i", "j", "k", "l", "m">>
        \o <<"n", "o", "p", "q", "r", "s", "t", "u", "v", "w", "x", "y", "z">>

UpperLetters ==
    <<"A", "B", "C", "D", "E", "F", "G", "H", "I", "J", "K", "L", "M">>
        \o <<"N", "O", "P", "Q", "R", "S", "T", "U", "V", "W", "X", "Y", "Z">>

\* str.toLowerCase() for a string of ASCII characters
toLowerCase(str) ==
    [i \in 1..Len(str) |->
        IF \E k \in 1..26 : UpperLetters[k] = str[i]
        THEN LowerLetters[CHOOSE k \in 1..26 : UpperLetters[k] = str[i]]
        ELSE str[i]]

\* \w over ASCII letters, digits and the underscore
WordClass ==
    {LowerLetters[k] : k \in 1..26} \cup {UpperLetters[k] : k \in 1..26}
        \cup {"0", "1", "2", "3", "4", "5", "6", "7", "8", "9", "_"}

sensitiveKeywords ==
    <<<<"c", "o", "n", "t", "r", "o", "v", "e", "r", "s", "i", "a", "l">>,
      <<"s", "c", "a", "n", "d", "a", "l">>,
      <<"p", "o", "l", "i", "t", "i", "c", "s">>,
      <<"r", "e", "l", "i", "g", "i", "o", "n">>,
      <<"n", "s", "f", "w">>,
      <<"o", "f", "f", "e", "n", "s", "i", "v", "e">>,
      <<"d", "e", "b", "a", "t", "e">>,
      <<"c", "r", "i", "t", "i", "c", "i", "z", "e", "d">>,
      <<"p", "o", "l", "a", "r", "i", "z", "i", "n", "g">>>>

SelectSeqIncluded(words, text) ==
    SelectSeq(words, LAMBDA word : Includes(text, toLowerCase(word)))

\* variant: a text of exactly the limit is an error already
exceedsLimitInclusive(postText) == Len(postText) >= lengthLimit

exceedsLimit(postText) == Len(postText) > lengthLimit

\* a post is <<>> (null) or <<[topic |-> t]>>, a topic <<>> (undefined) or
\* <<[text |-> x]>>, a text <<>> (undefined) or <<characters>>
postTextThrows(post) ==
    \/ post = <<>>
    \/ post[1].topic = <<>>
    \/ post[1].topic[1].text = <<>>

\* where the matches of /#\w+/g start: # is no word character, so every #
\* with a word character behind it starts a match
hashtagMatches(postText) ==
    {i \in 1..(Len(postText) - 1) :
        postText[i] = "#" /\ postText[i + 1] \in WordClass}

\* the issues of a readable post, without their messages
issuesOf(postText) ==
    (IF exceedsLimit(postText)
     THEN <<[severity |-> "error", type |-> "length"]>>
     ELSE IF Len(postText) > warnLength
     THEN <<[severity |-> "warning", type |-> "length"]>>
     ELSE <<>>)
    \o (IF Len(SelectSeqIncluded(sensitiveKeywords, toLowerCase(postText)))
               > 0
        THEN <<[severity |-> "warning", type |-> "content"]>>
        ELSE <<>>)
    \o (IF Cardinality(hashtagMatches(postText)) > maxHashtags
        THEN <<[severity |-> "warning", type |-> "hashtags"]>>
        ELSE <<>>)

validatePost(post) ==
    IF postTextThrows(post)
    THEN [isValid |-> FALSE,
          issues |-> <<[severity |-> "error", type |-> "system"]>>,
          post |-> post]
    ELSE LET issues == issuesOf(post[1].topic[1].text[1])
         IN  [isValid |->
                  Len(SelectSeq(issues,
                                LAMBDA issue : issue.severity = "error")) = 0,
              issues |-> issues,
              post |-> post]

\* texts of a given length: some hashtags, maybe a keyword, then padding
PostText(tags, word, length) ==
    LET head == Repeat(<<"#", "a", " ">>, tags) \o word
    IN  head \o [i \in 1..(length - Len(head)) |-> "x"]

PostTexts ==
    {PostText(tags, word, length) :
        tags \in {0, maxHashtags, maxHashtags + 1},
        word \in {<<>>, <<"n", "s", "f", "w", " ">>,
                  <<"D", "e", "b", "a", "t", "e", " ">>},
        length \in {0, warnLength - 1, warnLength, warnLength + 1,
                    lengthLimit, lengthLimit + 1, lengthLimit + 2}}

Posts ==
    {<<>>, <<[topic |-> <<>>]>>, <<[topic |-> <<[text |-> <<>>]>>]>>}
        \cup {<<[topic |-> <<[text |-> <<text>>]>>]>> : text \in PostTexts}

InitValidate ==
    /\ CodecIdle
    /\ input \in Posts
    /\ output = <<>>
    /\ schedule = <<>>
    /\ now = <<>>
    /\ trace = <<>>
    /\ pc = "idle"

ValidatePost ==
    /\ output = <<>>
    /\ output' = <<validatePost(input)>>
    /\ UNCHANGED <<codecVars, input, schedule, now, trace, pc>>

NextValidate == ValidatePost

SpecValidate == InitValidate /\ [][NextValidate]_vars

IssuesOfType(result, type) ==
    {i \in 1..Len(result.issues) : result.issues[i].type = type}

HasError(result) ==
    \E i \in 1..Len(result.issues) : result.issues[i].severity = "error"

\* C28 - Post validation: isValid is true exactly when no issue has severity
\* error; a text of more than 300 characters gives a length error, a text
\* of 281 to 300 characters only a length warning, sensitive keywords and
\* more than 5 hashtags give warnings only, and a post whose text cannot be
\* read gives isValid false with one system error.
PostValidation ==
    output # <<>> =>
        LET result == output[1]
        IN  /\ result.isValid <=> ~HasError(result)
            /\ postTextThrows(input) =>
                   /\ ~result.isValid
                   /\ result.issues
                          = <<[severity |-> "error", type |-> "system"]>>
            /\ ~postTextThrows(input) =>
                   LET n == Len(input[1].topic[1].text[1])
                   IN  /\ n > 300 =>
                              /\ ~result.isValid
                              /\ \E i \in IssuesOfType(result, "length") :
                                     result.issues[i].severity = "error"
                       /\ (n >= 281 /\ n <= 300) =>
                              /\ result.isValid
                              /\ Cardinality(IssuesOfType(result, "length"))
                                     = 1
                              /\ \A i \in IssuesOfType(result, "length") :
                                     result.issues[i].severity = "warning"
                       /\ n <= 280 => IssuesOfType(result, "length") = {}
                       /\ \A i \in IssuesOfType(result, "content")
                                  \cup IssuesOfType(result, "hashtags") :
                              result.issues[i].severity = "warning"
                       /\ IssuesOfType(result, "system") = {}

\* a text of exactly 300 characters with six hashtags and a keyword in
\* capitals is valid, with three warnings
ValidWithThreeWarnings ==
    /\ output # <<>>
    /\ ~postTextThrows(input)
    /\ Len(input[1].topic[1].text[1]) = 300
    /\ output[1].isValid
    /\ Len(output[1].issues) = 3
    /\ output[1].issues[1] = [severity |-> "warning", type |-> "length"]
    /\ output[1].issues[2] = [severity |-> "warning", type |-> "content"]
    /\ output[1].issues[3] = [severity |-> "warning", type |-> "hashtags"]


(***************************************************************************)
(* Bluesky connector (bluesky_api.js in src/unnamed/part_004)              *)
(***************************************************************************)
MaxNewFollowers == 2    \* longest follower list getFollowers returns

\* accounts as the API returns them; displayName may be missing
Accounts ==
    {[did |-> "did:plc:sample1", handle |-> "user1.bsky.social",
      displayName |-> "User One"],
     [did |-> "did:plc:sample2", handle |-> "user2.bsky.social",
      displayName |-> ""]}

Dids == {"did:plc:sample1", "did:plc:sample2", "did:plc:sample3"}

\* lists without repetition
DistinctLists(S, n) ==
    {l \in Lists(S, n) : \A i, j \in 1..Len(l) : l[i] = l[j] => i = j}

\* the calls of processNewFollower that reach the API
ApiCalls == {"analyzeProfile", "followUser", "getUserPosts", "replyToPost"}

\* what the API answers during one checkNewFollowers: the two lists, the
\* accounts that have a recent post, and the call that is rejected, if any
Answers ==
    [followers : DistinctLists(Accounts, MaxNewFollowers),
     following : SUBSET {"did:plc:sample1", "did:plc:sample3"},
     withPosts : SUBSET {a.did : a \in Accounts},
     rejected : {[call |-> "none", did |-> ""]}
                    \cup [call : ApiCalls, did : {a.did : a \in Accounts}]]

\* variant: every follower is taken for a new one
allFollowers(followers, following) == followers

\* followers.filter(follower => !following.some(follow => follow.did ===
\* follower.did))
notFollowingBack(followers, following) ==
    SelectSeq(followers, LAMBDA follower : follower.did \notin following)

\* analyzeProfile(...).interests
profileInterests == <<"AI", "technology", "programming">>

\* the follower processNewFollower is running for
CurrentFollower ==
    notFollowingBack(input.followers, input.following)[Len(output) + 1]

Rejected(call) ==
    /\ input.rejected.call = call
    /\ input.rejected.did = CurrentFollower.did

\* pc after processNewFollower returned
AfterFollower ==
    IF Len(output) + 1
           < Len(notFollowingBack(input.followers, input.following))
    THEN "analyzeProfile" ELSE "done"

\* the awaited call is rejected: the catch returns the error result
Caught(call) ==
    /\ trace' = Append(trace, [call |-> call, did |-> CurrentFollower.did,
                               ok |-> FALSE])
    /\ output' = Append(output, [status |-> "error",
                                 follower |-> CurrentFollower.handle,
                                 followed_back |-> FALSE])
    /\ pc' = AfterFollower

\* the awaited call resolves
Resolved(call, next) ==
    /\ trace' = Append(trace, [call |-> call, did |-> CurrentFollower.did,
                               ok |-> TRUE])
    /\ pc' = next

Succeeded ==
    output' = Append(output, [status |-> "success",
                              follower |-> CurrentFollower.handle,
                              followed_back |-> TRUE])

InitConnector == CodecIdle /\ AgentIdle

\* checkNewFollowers() is called; getFollowers and getFollowing answer
CheckNewFollowers ==
    /\ pc = "idle"
    /\ input' \in Answers
    /\ trace' = <<[call |-> "getFollowers", did |-> "", ok |-> TRUE],
                  [call |-> "getFollowing", did |-> "", ok |-> TRUE]>>
    /\ pc' = IF notFollowingBack(input'.followers, input'.following) = <<>>
             THEN "done" ELSE "analyzeProfile"
    /\ UNCHANGED <<codecVars, output, schedule, now>>

\* 1. await this.analyzeProfile(follower.did)
AnalyzeProfile ==
    /\ pc = "analyzeProfile"
    /\ IF Rejected("analyzeProfile")
       THEN Caught("analyzeProfile")
       ELSE Resolved("analyzeProfile", "createMemoryForUser")
                /\ UNCHANGED output
    /\ UNCHANGED <<codecVars, input, schedule, now>>

\* 2. await this.createMemoryForUser(follower, profileAnalysis):
\* createEmojikey with the interests as mentions, then updateMemory, which
\* catches its own failures
CreateMemoryForUser ==
    /\ pc = "createMemoryForUser"
    /\ ~createThrows([isNull |-> FALSE, mentions |-> profileInterests])
    /\ Resolved("createMemoryForUser", "followUser")
    /\ UNCHANGED <<codecVars, input, output, schedule, now>>

\* 3. await this.followUser(follower.did)
FollowUser ==
    /\ pc = "followUser"
    /\ IF Rejected("followUser")
       THEN Caught("followUser")
       ELSE Resolved("followUser", "getUserPosts") /\ UNCHANGED output
    /\ UNCHANGED <<codecVars, input, schedule, now>>

\* 4. await this.getUserPosts(follower.did, 1); without a recent post
\* processNewFollower returns success here
GetUserPosts ==
    /\ pc = "getUserPosts"
    /\ IF Rejected("getUserPosts")
       THEN Caught("getUserPosts")
       ELSE IF CurrentFollower.did \in input.withPosts
       THEN Resolved("getUserPosts", "replyToPost") /\ UNCHANGED output
       ELSE Resolved("getUserPosts", AfterFollower) /\ Succeeded
    /\ UNCHANGED <<codecVars, input, schedule, now>>

\* generateWelcomeReply, then await this.replyToPost(recentPosts[0].uri, ...)
ReplyToPost ==
    /\ pc = "replyToPost"
    /\ IF Rejected("replyToPost")
       THEN Caught("replyToPost")
       ELSE Resolved("replyToPost", AfterFollower) /\ Succeeded
    /\ UNCHANGED <<codecVars, input, schedule, now>>

NextConnector ==
    \/ CheckNewFollowers
    \/ AnalyzeProfile
    \/ CreateMemoryForUser
    \/ FollowUser
    \/ GetUserPosts
    \/ ReplyToPost

SpecConnector == InitConnector /\ [][NextConnector]_vars


\* the calls made for one account, in order
CallsFor(did) == SelectSeq(trace, LAMBDA e : e.did = did)

CallNames(calls) == [i \in 1..Len(calls) |-> calls[i].call]

\* the protocol for one new follower
Protocol(did) ==
    <<"analyzeProfile", "createMemoryForUser", "followUser", "getUserPosts">>
        \o (IF did \in input.withPosts THEN <<"replyToPost">> ELSE <<>>)

\* the followers whose did is not in the following list
NewFollowers ==
    {input.followers[i] : i \in
        {j \in 1..Len(input.followers) :
            input.followers[j].did \notin input.following}}

\* C29 - New-follower protocol order: processNewFollower runs analyzeProfile,
\* createMemoryForUser, followUser and, only for a follower with a recent
\* post, replyToPost, in that order; it reports followed_back true only
\* after followUser completed; when a step fails it performs no later step
\* and returns status error; checkNewFollowers processes exactly the
\* followers whose did is not in the following list, each once.
NewFollowerProtocol ==
    input # <<>> =>
        /\ \A a \in Accounts :
               LET calls == CallsFor(a.did)
               IN  /\ IsPrefix(CallNames(calls), Protocol(a.did))
                   /\ \A i \in 1..(Len(calls) - 1) : calls[i].ok
                   /\ calls # <<>> => a \in NewFollowers
        /\ \A k \in 1..Len(output) :
               LET a == CHOOSE f \in Accounts : f.handle = output[k].follower
                   calls == CallsFor(a.did)
                   failed == \E i \in 1..Len(calls) : ~calls[i].ok
               IN  /\ \E f \in Accounts : f.handle = output[k].follower
                   /\ output[k].status = IF failed THEN "error" ELSE "success"
                   /\ ~failed => /\ CallNames(calls) = Protocol(a.did)
                                 /\ output[k].followed_back
                   /\ output[k].followed_back =>
                          \E i \in 1..Len(calls) :
                              calls[i].call = "followUser" /\ calls[i].ok
                   /\ \A j \in 1..Len(output) :
                          output[j].follower = output[k].follower => j = k
        /\ pc = "done" =>
               {output[k].follower : k \in 1..Len(output)}
                   = {a.handle : a \in NewFollowers}

\* of two followers one is followed already; the other one, who has a
\* recent post, was analysed, remembered, followed and replied to
OneNewFollowerWelcomed ==
    /\ pc = "done"
    /\ Len(input.followers) = 2
    /\ Len(output) = 1
    /\ output[1].status = "success"
    /\ output[1].followed_back
    /\ output[1].follower = "user2.bsky.social"
    /\ CallNames(CallsFor("did:plc:sample2"))
           = <<"analyzeProfile", "createMemoryForUser", "followUser",
               "getUserPosts", "replyToPost">>


(***************************************************************************)
(* Hashtags of a formatted topic (src/topic_suggestions.js)                *)
(***************************************************************************)
hashtagLimit == 5
minTagLength == 3
minCompoundLength == 10

\* /[\s\-:,]/
IsSeparator(c) == c \in {" ", "-", ":", ","}

\* str.split(/[\s\-:,]+/) from position i on, word being the piece read so
\* far: a run of separators ends one piece, and a run at either end of the
\* string leaves an empty piece there
RECURSIVE SplitFrom(_, _, _)
SplitFrom(str, i, word) ==
    IF i > Len(str) THEN <<word>>
    ELSE IF ~IsSeparator(str[i])
    THEN SplitFrom(str, i + 1, Append(word, str[i]))
    ELSE IF i > 1 /\ IsSeparator(str[i - 1]) THEN SplitFrom(str, i + 1, word)
    ELSE <<word>> \o SplitFrom(str, i + 1, <<>>)

stopwords ==
    {<<"t", "h", "e">>,
     <<"a", "n", "d">>,
     <<"a">>,
     <<"a", "n">>,
     <<"i", "n">>,
     <<"o", "n">>,
     <<"a", "t">>,
     <<"t", "o">>,
     <<"f", "o", "r">>,
     <<"o", "f">>,
     <<"w", "i", "t", "h">>,
     <<"b", "y">>}

commonWords ==
    {<<"t", "h", "e">>,
     <<"a", "n", "d">>,
     <<"f", "o", "r">>,
     <<"w", "i", "t", "h">>}

techInterests ==
    {<<"a", "i">>,
     <<"t", "e", "c", "h">>,
     <<"p", "r", "o", "g", "r", "a", "m", "m", "i", "n", "g">>,
     <<"c", "y", "b", "e", "r", "s", "e", "c", "u", "r", "i", "t", "y">>,
     <<"m", "a", "c", "h", "i", "n", "e", " ", "l", "e", "a", "r", "n", "i",
       "n", "g">>}

technology == <<"t", "e", "c", "h", "n", "o", "l", "o", "g", "y">>

extractKeyTerms(topic) ==
    LET words == SplitFrom(topic, 1, <<>>)
        terms == SelectSeq(words, LAMBDA word :
                     Len(word) > minTagLength
                         /\ toLowerCase(word) \notin stopwords)
        pairs == [i \in 1..(Len(words) - 1) |-> words[i] \o words[i + 1]]
        compoundTerms ==
            SelectSeq(pairs, LAMBDA term : Len(term) > minCompoundLength)
    IN  terms \o compoundTerms

\* [...new Set(array)]: the first occurrence of each element, compared as
\* it stands
RECURSIVE SetOf(_)
SetOf(array) ==
    IF array = <<>> THEN <<>>
    ELSE LET front == SetOf(SubSeq(array, 1, Len(array) - 1))
             last == array[Len(array)]
         IN  IF \E i \in 1..Len(front) : front[i] = last
             THEN front ELSE Append(front, last)

generateHashtags(interest, topic, type) ==
    LET hashtags ==
            <<SelectSeq(interest, LAMBDA c : c # " "), type>>
                \o extractKeyTerms(topic)
                \o (IF toLowerCase(interest) \in techInterests
                    THEN <<technology>> ELSE <<>>)
        kept == SelectSeq(SetOf(hashtags), LAMBDA tag :
                    Len(tag) > minTagLength
                        /\ toLowerCase(tag) \notin commonWords)
    IN  ArraySlice([i \in 1..Len(kept) |-> toLowerCase(kept[i])],
                   0, hashtagLimit)

\* base interests: keys of the topicMap and interests a profile reports
BaseInterests ==
    {<<"q", "u", "a", "n", "t", "u", "m">>,
     <<"q", "u", "a", "n", "t", "u", "m", " ", "c", "o", "m", "p", "u", "t",
       "i", "n", "g">>,
     <<"c", "y", "b", "e", "r", "s", "e", "c", "u", "r", "i", "t", "y">>,
     <<"A", "I">>,
     <<"m", "a", "c", "h", "i", "n", "e", " ", "l", "e", "a", "r", "n", "i",
       "n", "g">>,
     <<"p", "r", "i", "v", "a", "c", "y">>}

\* topics of the topicMap and of the generic suggestions
Topics ==
    {<<"Q", "u", "a", "n", "t", "u", "m", " ", "c", "o", "m", "p", "u", "t",
       "i", "n", "g", " ", "f", "o", "r", " ", "b", "e", "g", "i", "n", "n",
       "e", "r", "s", ":", " ", "U", "n", "d", "e", "r", "s", "t", "a", "n",
       "d", "i", "n", "g", " ", "t", "h", "e", " ", "b", "a", "s", "i", "c",
       "s">>,
     <<"G", "e", "t", "t", "i", "n", "g", " ", "s", "t", "a", "r", "t", "e",
       "d", " ", "w", "i", "t", "h", " ", "q", "u", "a", "n", "t", "u", "m",
       " ", "c", "o", "m", "p", "u", "t", "i", "n", "g">>,
     <<"Z", "e", "r", "o", "-", "d", "a", "y", " ", "v", "u", "l", "n", "e",
       "r", "a", "b", "i", "l", "i", "t", "i", "e", "s", " ", "a", "n", "d",
       " ", "r", "e", "s", "p", "o", "n", "s", "i", "b", "l", "e", " ", "d",
       "i", "s", "c", "l", "o", "s", "u", "r", "e">>,
     <<"T", "h", "e", " ", "e", "t", "h", "i", "c", "a", "l", " ", "i", "m",
       "p", "l", "i", "c", "a", "t", "i", "o", "n", "s", " ", "o", "f", " ",
       "A", "I", "-", "d", "r", "i", "v", "e", "n", " ", "d", "e", "c", "i",
       "s", "i", "o", "n", " ", "m", "a", "k", "i", "n", "g">>,
     <<"B", "u", "i", "l", "d", "i", "n", "g", " ", "a", " ", "b", "a", "s",
       "i", "c", " ", "s", "e", "c", "u", "r", "i", "t", "y", " ", "s", "c",
       "a", "n", "n", "i", "n", "g", " ", "t", "o", "o", "l">>,
     <<"H", "o", "w", " ", "d", "i", "f", "f", "e", "r", "e", "n", "t", "i",
       "a", "l", " ", "p", "r", "i", "v", "a", "c", "y", " ", "w", "o", "r",
       "k", "s", " ", "a", "n", "d", " ", "w", "h", "y", " ", "i", "t", " ",
       "m", "a", "t", "t", "e", "r", "s">>}

\* the content types of the templates
ContentTypes ==
    {<<"d", "i", "s", "c", "u", "s", "s", "i", "o", "n">>,
     <<"n", "e", "w", "s">>,
     <<"t", "u", "t", "o", "r", "i", "a", "l">>,
     <<"a", "n", "a", "l", "y", "s", "i", "s">>,
     <<"e", "x", "p", "l", "a", "i", "n", "e", "r">>,
     <<"l", "i", "s", "t">>}

Suggestions ==
    [baseInterest : BaseInterests, topic : Topics, type : ContentTypes]

InitHashtags == CodecIdle /\ AgentIdle

\* formatTopicForPost(suggestion) computes the hashtags of its result
GenerateHashtags ==
    /\ pc = "idle"
    /\ \E suggestion \in Suggestions :
           /\ input' = suggestion
           /\ output' = generateHashtags(suggestion.baseInterest,
                                         suggestion.topic, suggestion.type)
    /\ pc' = "done"
    /\ UNCHANGED <<codecVars, schedule, now, trace>>

NextHashtags == GenerateHashtags

SpecHashtags == InitHashtags /\ [][NextHashtags]_vars

\* at most five tags, all lower-case, each longer than three characters and
\* none a common word
HashtagFilter ==
    pc = "done" =>
        /\ Len(output) <= 5
        /\ \A i \in 1..Len(output) :
               /\ output[i] = toLowerCase(output[i])
               /\ Len(output[i]) > 3
               /\ output[i] \notin commonWords

\* C30 - Hashtag result invariant: generateHashtags returns at most five
\* hashtags, all lower-case, each longer than three characters, none of
\* 'the', 'and', 'for', 'with', and no hashtag twice.
HashtagResult ==
    /\ HashtagFilter
    /\ pc = "done" =>
           \A i, j \in 1..Len(output) : output[i] = output[j] => i = j

====
